---- MODULE Spec2Model ----
(***************************************************************************)
(* A model of the orchestration layer of the Virtual-Think-Tank            *)
(* simulations: the survey pipeline (survey_simulation.py), the persona    *)
(* generator, the discussion loop and the analysis of the focus group      *)
(* (focus_group_simulation.py), and the persona generator, the interview   *)
(* loop and the analysis of the in-depth interview (idi_simulation.py).    *)
(*                                                                         *)
(* Backend text is modelled as a wrapper (a fenced ```json block or bare   *)
(* text) around a body that is either a JSON value or malformed text; the  *)
(* extraction code of every site is modelled by what its regular           *)
(* expression, its startswith/endswith tests, json.loads and its           *)
(* validation loop do with such a text.                                    *)
(***************************************************************************)
EXTENDS Integers, Sequences, FiniteSets, TLC

(***************************************************************************)
(* Bounds of the model.                                                    *)
(***************************************************************************)
MaxRespondents == 2     \* num_respondents ranges over 0..MaxRespondents
MaxWriteFailures == 1   \* writes to the run directory that fail in one run
MaxParticipants == 3    \* num_participants ranges over 0..MaxParticipants
MaxRounds == 2          \* num_rounds ranges over 0..MaxRounds
MaxQuestions == 2       \* num_questions ranges over 0..MaxQuestions
MaxTurnFailures == 2    \* generation calls of one dialogue that give no text
MaxRequested == 3       \* generate_respondents on its own: 0..MaxRequested profiles

(***************************************************************************)
(* JSON values: tagged records.                                            *)
(***************************************************************************)
Str(s) == [t |-> "str", v |-> s]
Num(n) == [t |-> "num", v |-> n]
Bool(b) == [t |-> "bool", v |-> b]
Lst(s) == [t |-> "list", v |-> s]
Obj(f) == [t |-> "obj", v |-> f]
Null == [t |-> "null"]

IsDict(j) == j.t = "obj"
IsList(j) == j.t = "list"
IsStr(j) == j.t = "str"
IsNumber(j) == j.t = "num"
HasKey(j, k) == k \in DOMAIN j.v
\* dict.get(k, default)
Get(j, k, default) == IF k \in DOMAIN j.v THEN j.v[k] ELSE default
\* Python truthiness of a JSON value
Truthy(j) ==
  CASE j.t = "null" -> FALSE
    [] j.t = "bool" -> j.v
    [] j.t = "num" -> j.v # 0
    [] j.t = "str" -> j.v # ""
    [] j.t = "list" -> Len(j.v) > 0
    [] j.t = "obj" -> DOMAIN j.v # {}

(***************************************************************************)
(* Backend text and the result of Runner.run.                              *)
(***************************************************************************)
JsonBody(j) == [syn |-> "json", val |-> j]
\* text that json.loads rejects; shape is "brace" ({...}), "bracket" ([...])
\* or "prose"
Malformed(shape) == [syn |-> "malformed", shape |-> shape]
Fenced(body) == [w |-> "fence", body |-> body]
Bare(body) == [w |-> "bare", body |-> body]

Raise(kind) == [k |-> "raise", kind |-> kind]
Result(text) == [k |-> "ok", final_output |-> text]
NoOutput == [k |-> "ok", final_output |-> [w |-> "none"]]

\* str.startswith('{') and str.endswith('}') of the stripped body
LooksLikeObject(body) ==
  IF body.syn = "json" THEN body.val.t = "obj" ELSE body.shape = "brace"
\* str.startswith('[') and str.endswith(']') of the stripped body
LooksLikeArray(body) ==
  IF body.syn = "json" THEN body.val.t = "list" ELSE body.shape = "bracket"

Parsed(j) == [ok |-> TRUE, val |-> j]
Failed(e) == [ok |-> FALSE, err |-> e]
\* json.loads
JsonLoads(body) ==
  IF body.syn = "json" THEN Parsed(body.val) ELSE Failed("JSONDecodeError")

(***************************************************************************)
(* design_survey: extraction, validation and fallback.                     *)
(***************************************************************************)
Topic == "EV"

Question(id, type, required) ==
  Obj([question_id |-> Str(id), question_text |-> Str("text of " \o id),
       question_type |-> Str(type), required |-> Bool(required)])

\* the survey a compliant designer returns
GoodSurvey ==
  Obj([survey_title |-> Str("Survey"),
       survey_introduction |-> Str("Intro"),
       sections |-> Lst(<<
         Obj([section_title |-> Str("S1"),
              questions |-> Lst(<<Question("Q1", "multiple_choice", TRUE),
                                  Question("Q2", "open_ended", FALSE)>>)])>>)])

\* designer documents that parse but violate the validation of design_survey
SurveyTitleNotStr ==
  Obj([survey_title |-> Num(7), sections |-> GoodSurvey.v.sections])
SurveyNoSections == Obj([survey_title |-> Str("Survey"), sections |-> Lst(<<>>)])
SurveySectionNotDict ==
  Obj([survey_title |-> Str("Survey"), sections |-> Lst(<<Str("S1")>>)])
SurveyQuestionMissingKey ==
  Obj([survey_title |-> Str("Survey"),
       sections |-> Lst(<<
         Obj([section_title |-> Str("S1"),
              questions |-> Lst(<<Obj([question_id |-> Str("Q1"),
                                       question_text |-> Str("text")])>>)])>>)])

\* survey_simulation.py 423-430
FallbackSurvey(topic) ==
  Obj([survey_title |-> Str(topic \o " Survey (Fallback)"),
       survey_introduction |-> Str("Basic survey due to design error."),
       sections |-> Lst(<<
         Obj([section_title |-> Str("Basic Questions"),
              section_description |-> Str(""),
              questions |-> Lst(<<
                Obj([question_id |-> Str("FALLBACK_Q1"),
                     question_text |-> Str("Age?"),
                     question_type |-> Str("multiple_choice"),
                     options |-> Lst(<<Str("<25"), Str("25-44"), Str("45+")>>),
                     required |-> Bool(TRUE)]),
                Obj([question_id |-> Str("FALLBACK_Q2"),
                     question_text |-> Str("Overall opinion on " \o topic \o "?"),
                     question_type |-> Str("open_ended"),
                     required |-> Bool(FALSE)])>>)])>>)])

\* survey_simulation.py 375-385: locate the block and parse it
DesignExtract(text) ==
  IF text.w = "none" THEN Failed("TypeError")
  ELSE IF text.w = "fence" THEN JsonLoads(text.body)
  ELSE IF ~LooksLikeObject(text.body) THEN Failed("ValueError")
  ELSE JsonLoads(text.body)

QuestionKeys == {"question_id", "question_text", "question_type", "required"}

\* survey_simulation.py 395-408
DesignSectionValid(section) ==
  /\ IsDict(section)
  /\ HasKey(section, "section_title") /\ IsStr(section.v.section_title)
  /\ HasKey(section, "questions") /\ IsList(section.v.questions)
  /\ \A j \in 1..Len(section.v.questions.v) :
        LET q == section.v.questions.v[j]
        IN IsDict(q) /\ QuestionKeys \subseteq DOMAIN q.v

\* survey_simulation.py 388-408
DesignValid(survey_data) ==
  /\ IsDict(survey_data)
  /\ HasKey(survey_data, "survey_title") /\ IsStr(survey_data.v.survey_title)
  /\ HasKey(survey_data, "sections") /\ IsList(survey_data.v.sections)
  /\ Len(survey_data.v.sections.v) > 0
  /\ \A i \in 1..Len(survey_data.v.sections.v) :
        DesignSectionValid(survey_data.v.sections.v[i])

\* The result of one stage: either it raised (err is str(e)) or it returned
\* value; tried tells whether the stage got to write its artifact, wrote
\* whether the artifact reached storage, path names the branch taken.
StageRaised(e, wrote, value) ==
  [raised |-> TRUE, err |-> e, tried |-> wrote \/ e = "OSError", wrote |-> wrote,
   value |-> value, path |-> "raise"]
StageReturned(value, wrote, path) ==
  [raised |-> FALSE, err |-> "", tried |-> TRUE, wrote |-> wrote,
   value |-> value, path |-> path]

\* survey_simulation.py 354-438: design_survey for one backend result and
\* one outcome of the write of survey_questions.json
design_survey(topic, result, writeOk) ==
  IF result.k = "raise" THEN StageRaised("backend " \o result.kind, FALSE, Null)
  ELSE LET ex == DesignExtract(result.final_output) IN
    IF ~ex.ok /\ ex.err = "TypeError" THEN StageRaised("TypeError", FALSE, Null)
    ELSE IF ex.ok /\ DesignValid(ex.val)
         THEN IF writeOk THEN StageReturned(ex.val, TRUE, "parsed")
              ELSE StageRaised("OSError", FALSE, Null)
         ELSE StageReturned(FallbackSurvey(topic), writeOk, "fallback")

\* what the designer backend may answer
DesignResults ==
  << Raise("transient"), Raise("fatal"), NoOutput,
     Result(Fenced(JsonBody(GoodSurvey))),
     Result(Bare(JsonBody(GoodSurvey))),
     Result(Fenced(JsonBody(SurveyTitleNotStr))),
     Result(Fenced(JsonBody(SurveyNoSections))),
     Result(Bare(JsonBody(SurveySectionNotDict))),
     Result(Fenced(JsonBody(SurveyQuestionMissingKey))),
     Result(Fenced(JsonBody(Lst(<<GoodSurvey>>)))),
     Result(Bare(JsonBody(Lst(<<GoodSurvey>>)))),
     Result(Fenced(Malformed("brace"))),
     Result(Bare(Malformed("brace"))),
     Result(Bare(Malformed("prose"))) >>

(***************************************************************************)
(* generate_respondents: extraction, per-profile validation, cloning,      *)
(* truncation and the generic fallback.                                    *)
(***************************************************************************)
\* a profile with every key the generator is asked for
Profile(id, age, traits) ==
  Obj([respondent_id |-> id,
       demographics |-> Obj([age |-> age, gender |-> Str("Female"),
                             location_city |-> Str("Austin"),
                             occupation_title |-> Str("Nurse"),
                             income_annual_usd |-> Num(50000)]),
       psychographics |-> Obj([personality_traits |-> traits,
                               values |-> Lst(<<Str("Family")>>),
                               interests_hobbies |-> Lst(<<>>),
                               technology_adoption |-> Str("Laggard")]),
       behaviors |-> Obj([shopping_preferences |-> Lst(<<>>),
                          decision_making_style |-> Str("Impulsive")]),
       response_style |-> Obj([approach |-> Str("Concise"),
                               potential_bias |-> Str("None"),
                               consistency |-> Str("Consistent")])])

Traits == Lst(<<Str("Calm")>>)
ProfileA == Profile(Str("R001"), Num(30), Traits)
\* another person under the id of ProfileA
ProfileB == Profile(Str("R001"), Num(45), Traits)
\* a null id
ProfileC == Profile(Null, Num(52), Traits)
ProfileE == Profile(Str("R003"), Num(19), Traits)
\* a non-numeric age, and traits that are not a list of strings
ProfileBadTraits == Profile(Str("R004"), Str("thirty"), Num(3))
\* documents the per-profile validation rejects
ProfileMissingTop == Obj([respondent_id |-> Str("R005"),
                          demographics |-> ProfileA.v.demographics])
ProfileNestedStr ==
  Obj([respondent_id |-> Str("R006"), demographics |-> Str("34, female"),
       psychographics |-> ProfileA.v.psychographics,
       behaviors |-> ProfileA.v.behaviors,
       response_style |-> ProfileA.v.response_style])
ProfileNestedMissing ==
  Obj([respondent_id |-> Str("R007"),
       demographics |-> Obj([age |-> Num(34)]),
       psychographics |-> ProfileA.v.psychographics,
       behaviors |-> ProfileA.v.behaviors,
       response_style |-> ProfileA.v.response_style])

\* survey_simulation.py 478-484
required_keys ==
  {"respondent_id", "demographics", "psychographics", "behaviors", "response_style"}
required_nested_keys ==
  [demographics |-> {"age", "gender", "location_city", "occupation_title",
                     "income_annual_usd"},
   psychographics |-> {"personality_traits", "values", "interests_hobbies",
                       "technology_adoption"},
   behaviors |-> {"shopping_preferences", "decision_making_style"},
   response_style |-> {"approach", "potential_bias", "consistency"}]

\* survey_simulation.py 487-505: one pass of the validation loop
ProfileValid(profile) ==
  /\ IsDict(profile)
  /\ required_keys \subseteq DOMAIN profile.v
  /\ \A nested_key \in DOMAIN required_nested_keys :
        /\ IsDict(profile.v[nested_key])
        /\ required_nested_keys[nested_key] \subseteq DOMAIN profile.v[nested_key].v

\* f"{n:03d}"
Pad3(n) ==
  IF n < 10 THEN "00" \o ToString(n)
  ELSE IF n < 100 THEN "0" \o ToString(n) ELSE ToString(n)

\* values of random.randint(-3, 3) and random.randint(18, 75) the model draws
RandomDeltas == {-3, 3}
RandomAges == {18, 75}
Max(a, b) == IF a >= b THEN a ELSE b

\* survey_simulation.py 519-528: the clone of clone_source, with its new id
\* and its varied age
MakeClone(clone_source, new_id_num, delta, random_age) ==
  LET original_age == clone_source.v.demographics.v.age
      new_age == IF IsNumber(original_age)
                 THEN Max(18, original_age.v + delta)
                 ELSE random_age
  IN Obj([clone_source.v EXCEPT
            !.respondent_id = Str("R" \o Pad3(new_id_num) \o "_clone"),
            !.demographics =
               Obj([clone_source.v.demographics.v EXCEPT !.age = Num(new_age)])])

\* survey_simulation.py 514-531: the lists the cloning loop can end with.
\* validated_respondents and respondents_data are one list object, so the
\* source is drawn from the list as it stands, clones included, and the id
\* number counts every clone twice.
RECURSIVE CloneLoop(_, _, _)
CloneLoop(respondents_data, cloned_count, num_respondents) ==
  IF Len(respondents_data) >= num_respondents THEN {respondents_data}
  ELSE UNION {
    CloneLoop(Append(respondents_data,
                     MakeClone(respondents_data[k],
                               Len(respondents_data) + cloned_count + 1,
                               d, a)),
              cloned_count + 1, num_respondents) :
      <<k, d, a>> \in
        {<<k, d, a>> \in (1..Len(respondents_data)) \X RandomDeltas \X RandomAges :
           \* the draw that is not used is fixed, so that one draw is one list
           IF IsNumber(respondents_data[k].v.demographics.v.age)
           THEN a = 18 ELSE d = 3} }

\* survey_simulation.py 548-556: one generic profile.  Of the fields the code
\* fills with "N/A" or an empty list, the model keeps those that
\* required_nested_keys names.
GenericRespondent(i, random_age) ==
  Obj([respondent_id |-> Str("R" \o Pad3(i) \o "_fallback"),
       demographics |-> Obj([age |-> Num(random_age), gender |-> Str("Unknown"),
                             location_city |-> Str("N/A"),
                             occupation_title |-> Str("N/A"),
                             income_annual_usd |-> Num(50000)]),
       psychographics |-> Obj([personality_traits |-> Lst(<<Str("Neutral")>>),
                               values |-> Lst(<<>>),
                               interests_hobbies |-> Lst(<<>>),
                               technology_adoption |-> Str("Mainstream")]),
       behaviors |-> Obj([shopping_preferences |-> Lst(<<>>),
                          decision_making_style |-> Str("Moderate")]),
       response_style |-> Obj([approach |-> Str("Neutral/Middle-ground"),
                               potential_bias |-> Str("None"),
                               consistency |-> Str("Generally Consistent")])])

\* survey_simulation.py 547-556: the generic lists the fallback can build
GenericRespondents(num_respondents) ==
  { [i \in 1..num_respondents |-> GenericRespondent(i, ages[i])] :
      ages \in [1..num_respondents -> RandomAges] }

\* a slice that keeps the whole list
TakeAll(s, n) == s

\* list[:n] for n >= 0
Take(s, n) == SubSeq(s, 1, IF n < Len(s) THEN n ELSE Len(s))

\* survey_simulation.py 459-467
RespondentsExtract(text) ==
  IF text.w = "none" THEN Failed("TypeError")
  ELSE IF text.w = "fence" THEN JsonLoads(text.body)
  ELSE IF ~LooksLikeArray(text.body) THEN Failed("ValueError")
  ELSE JsonLoads(text.body)

\* survey_simulation.py 441-564: the results generate_respondents can have
\* for one backend result and one outcome of the write of respondents.json
generate_respondents(num_respondents, result, writeOk) ==
  IF result.k = "raise" THEN {StageRaised("backend " \o result.kind, FALSE, <<>>)}
  ELSE LET ex == RespondentsExtract(result.final_output) IN
    IF ~ex.ok /\ ex.err = "TypeError" THEN {StageRaised("TypeError", FALSE, <<>>)}
    ELSE LET validated_respondents ==
               IF ex.ok /\ IsList(ex.val)
               THEN SelectSeq(ex.val.v, ProfileValid) ELSE <<>>
         IN IF Len(validated_respondents) > 0
            THEN { IF writeOk
                   THEN StageReturned(Take(filled, num_respondents), TRUE, "parsed")
                   ELSE StageRaised("OSError", FALSE, <<>>) :
                   filled \in CloneLoop(validated_respondents, 0, num_respondents) }
            ELSE { StageReturned(generic, writeOk, "fallback") :
                   generic \in GenericRespondents(num_respondents) }

\* what the respondent generator backend may answer
GeneratorResults ==
  << Raise("transient"), NoOutput,
     Result(Fenced(JsonBody(Lst(<<ProfileA, ProfileB>>)))),
     Result(Bare(JsonBody(Lst(<<ProfileA, ProfileC, ProfileE>>)))),
     Result(Fenced(JsonBody(Lst(<<ProfileMissingTop, Str("a profile"),
                                  ProfileBadTraits>>)))),
     Result(Fenced(JsonBody(Lst(<<ProfileNestedStr, ProfileNestedMissing>>)))),
     Result(Fenced(JsonBody(Lst(<<>>)))),
     Result(Fenced(JsonBody(ProfileA))),
     Result(Bare(JsonBody(ProfileA))),
     Result(Bare(Malformed("bracket"))),
     Result(Bare(Malformed("prose"))) >>

(***************************************************************************)
(* collect_survey_responses: task creation, the per-respondent extraction  *)
(* and validation, and the assembly of the response sets.                  *)
(***************************************************************************)
\* the questions of a survey, in order (the nested loops over sections)
RECURSIVE Flatten(_)
Flatten(seqs) ==
  IF seqs = <<>> THEN <<>> ELSE Head(seqs) \o Flatten(Tail(seqs))
SurveyQuestions(survey_questions) ==
  LET sections == Get(survey_questions, "sections", Lst(<<>>)).v
  IN Flatten([i \in 1..Len(sections) |->
                Get(sections[i], "questions", Lst(<<>>)).v])

\* ', '.join(x) succeeds on a string, a dict and a list of strings
JoinOk(j) ==
  \/ j.t \in {"str", "obj"}
  \/ j.t = "list" /\ \A i \in 1..Len(j.v) : IsStr(j.v[i])

\* survey_simulation.py 186-219: SurveyResponseAgent.__init__ raises when a
\* profile section is not a dict or a joined field is not joinable
AgentInitRaises(respondent_data) ==
  LET demo == Get(respondent_data, "demographics", Obj(<<>>))
      psych == Get(respondent_data, "psychographics", Obj(<<>>))
      behav == Get(respondent_data, "behaviors", Obj(<<>>))
      style == Get(respondent_data, "response_style", Obj(<<>>))
  IN \/ ~IsDict(demo) \/ ~IsDict(psych) \/ ~IsDict(behav) \/ ~IsDict(style)
     \/ \E k \in {"personality_traits", "values", "interests_hobbies",
                  "media_consumption_primary"} :
           ~JoinOk(Get(psych, k, Lst(<<>>)))
     \/ \E k \in {"shopping_preferences", "brand_affinities_relevant"} :
           ~JoinOk(Get(behav, k, Lst(<<>>)))

\* survey_simulation.py 624, 640: the name asyncio gives the task of the
\* i-th respondent (i counts from 1): str(respondent_id), or a generated
\* name when the id is None
TaskName(respondent, i) ==
  LET respondent_id == Get(respondent, "respondent_id", Str("R" \o Pad3(i)))
  IN CASE respondent_id.t = "str" -> respondent_id.v
       [] respondent_id.t = "num" -> ToString(respondent_id.v)
       [] OTHER -> "Task-" \o ToString(i)

\* survey_simulation.py 622-646: the tasks created for the respondents
CreateTasks(respondents) ==
  [i \in 1..Len(respondents) |->
     [name |-> TaskName(respondents[i], i),
      init_failed |-> AgentInitRaises(respondents[i])]]

\* survey_simulation.py 666-669: the profile the i-th response set starts
\* from: the first respondent whose id equals the task name, else the i-th
OriginalRespondentData(respondents, task_name, i) ==
  LET matches == {k \in 1..Len(respondents) :
                    Get(respondents[k], "respondent_id", Null) = Str(task_name)}
  IN IF matches # {}
     THEN respondents[CHOOSE k \in matches : \A m \in matches : k <= m]
     ELSE respondents[i]

\* survey_simulation.py 683-693: locate the answers and parse them
ResponseExtract(text) ==
  IF text.w = "fence" /\ LooksLikeObject(text.body) THEN JsonLoads(text.body)
  ELSE IF text.w = "bare" /\ LooksLikeArray(text.body) THEN JsonLoads(text.body)
  ELSE Failed("ValueError")

\* survey_simulation.py 705
AnswerValid(answer) ==
  IsDict(answer) /\ HasKey(answer, "question_id") /\ HasKey(answer, "response")

\* set.add(answer["question_id"]) raises TypeError on a list or a dict
Unhashable(j) == j.t \in {"list", "obj"}

ErrorAnswer(marker, response) ==
  Obj([question_id |-> Str(marker), response |-> response])

\* survey_simulation.py 696-721: the answers stored for a parsed list
ValidatedAnswers(survey_questions, response_data) ==
  LET valid_answers == SelectSeq(response_data.v, AnswerValid)
      provided_q_ids == {valid_answers[k].v.question_id : k \in 1..Len(valid_answers)}
      questions == SurveyQuestions(survey_questions)
      IsMissing(q) == Truthy(Get(q, "required", Null))
                        /\ q.v.question_id \notin provided_q_ids
      missing_required == SelectSeq(questions, IsMissing)
      missing_ids == [k \in 1..Len(missing_required) |->
                        missing_required[k].v.question_id]
  IN IF missing_required # <<>>
     THEN Append(valid_answers, ErrorAnswer("MISSING_REQUIRED", Lst(missing_ids)))
     ELSE valid_answers

\* survey_simulation.py 675-725: the "responses" of one respondent, or the
\* exception that leaves the function
Responses(survey_questions, result) ==
  IF result.k = "raise"
  THEN Parsed(<<ErrorAnswer("AGENT_ERROR", Str("Agent failed: " \o result.kind))>>)
  ELSE IF result.final_output.w = "none" THEN Failed("AttributeError")
  ELSE LET ex == ResponseExtract(result.final_output) IN
    IF ~ex.ok
    THEN Parsed(<<ErrorAnswer("JSON_ERROR", Str("Invalid JSON: " \o ex.err))>>)
    ELSE IF ~IsList(ex.val)
    THEN Parsed(<<ErrorAnswer("FORMAT_WARNING_NOT_LIST", ex.val)>>)
    ELSE IF \E k \in 1..Len(ex.val.v) :
               AnswerValid(ex.val.v[k]) /\ Unhashable(ex.val.v[k].v.question_id)
    THEN Failed("TypeError")
    ELSE Parsed(ValidatedAnswers(survey_questions, ex.val))

\* survey_simulation.py 672-673, 727: the profile with its responses
ResponseSet(original_respondent_data, responses) ==
  Obj([k \in DOMAIN original_respondent_data.v \cup {"responses"} |->
         IF k = "responses" THEN Lst(responses)
         ELSE original_respondent_data.v[k]])

\* survey_simulation.py 659-737: the loop over the gathered results
collect_results(survey_questions, respondents, tasks, results, writeOk) ==
  LET per == [i \in 1..Len(tasks) |-> Responses(survey_questions, results[i])]
  IN IF \E i \in 1..Len(tasks) : ~per[i].ok
     THEN LET first == CHOOSE i \in 1..Len(tasks) :
                          ~per[i].ok /\ \A m \in 1..(i - 1) : per[m].ok
          IN StageRaised(per[first].err, FALSE, <<>>)
     ELSE StageReturned(
            [i \in 1..Len(tasks) |->
               ResponseSet(OriginalRespondentData(respondents, tasks[i].name, i),
                           per[i].val)],
            writeOk, "returned")

Answer(question_id, response) ==
  Obj([question_id |-> question_id, response |-> Str(response)])

\* an answer to every question of the survey
FullAnswers(survey_questions) ==
  LET questions == SurveyQuestions(survey_questions)
  IN Lst([k \in 1..Len(questions) |->
            Answer(questions[k].v.question_id, "answer")])

\* what the backend of one respondent may answer
RespondentResults(survey_questions) ==
  LET full == FullAnswers(survey_questions)
  IN << Raise("transient"), NoOutput,
        Result(Bare(JsonBody(full))),
        Result(Fenced(JsonBody(full))),
        \* the first (required) answer replaced by something that is no answer
        Result(Bare(JsonBody(Lst(<<Str("skip")>> \o Tail(full.v))))),
        Result(Fenced(JsonBody(Head(full.v)))),
        Result(Bare(Malformed("prose"))),
        Result(Bare(JsonBody(Lst(<<Answer(Lst(<<Str("Q1")>>), "x")>>)))) >>

\* the result gather() holds for a task whose agent could not be built:
\* error_task raises NameError, its except variable being unbound by then
InitFailedResult == Raise("NameError")

(***************************************************************************)
(* process_survey_data.                                                    *)
(***************************************************************************)
ErrorMarkers ==
  {"AGENT_ERROR", "JSON_ERROR", "FORMAT_WARNING_NOT_LIST", "MISSING_REQUIRED"}

\* str(value)
PyStr(j) ==
  CASE j.t = "str" -> j
    [] j.t = "num" -> Str(ToString(j.v))
    [] j.t = "bool" -> Str(IF j.v THEN "True" ELSE "False")
    [] j.t = "null" -> Str("None")
    [] OTHER -> Str("<repr>")

\* survey_simulation.py 756-769: the questions that have a truthy id
QuestionDetails(survey_questions) ==
  LET questions == SelectSeq(SurveyQuestions(survey_questions),
                             LAMBDA q : Truthy(Get(q, "question_id", Null)))
  IN [k \in 1..Len(questions) |->
        [q_id |-> questions[k].v.question_id,
         text |-> Get(questions[k], "question_text", Str("")),
         type |-> Get(questions[k], "question_type", Str("")),
         required |-> Get(questions[k], "required", Bool(FALSE))]]

\* a classification that drops the marker answers without counting them
ClassifySkippingMarkers(details, answer) ==
  IF ~IsDict(answer) THEN [kind |-> "error"]
  ELSE LET q_id == Get(answer, "question_id", Null)
           response_value == Get(answer, "response", Null)
           known == {k \in 1..Len(details) : details[k].q_id = q_id}
       IN IF IsStr(q_id) /\ q_id.v \in ErrorMarkers THEN [kind |-> "none"]
          ELSE IF Truthy(q_id) /\ known # {}
          THEN LET q_type == details[CHOOSE k \in known : TRUE].type
                   plain == response_value.t \in {"str", "null"}
               IN IF q_type \in {Str("checkbox"), Str("ranking")}
                     /\ ~IsList(response_value)
                     /\ response_value # Null /\ response_value # Str("")
                  THEN [kind |-> "error"]
                  ELSE [kind |-> "entry", q_id |-> q_id,
                        response |->
                          IF q_type \in {Str("open_ended"), Str("multiple_choice"),
                                         Str("likert_scale")} /\ ~plain
                          THEN PyStr(response_value) ELSE response_value]
          ELSE IF Truthy(q_id) THEN [kind |-> "error"]
          ELSE [kind |-> "none"]

\* survey_simulation.py 795-843: what one answer contributes: "entry" (an
\* aggregated response), "error" (one more error of the respondent) or
\* "none"
Classify(details, answer) ==
  IF ~IsDict(answer) THEN [kind |-> "error"]
  ELSE LET q_id == Get(answer, "question_id", Null)
           response_value == Get(answer, "response", Null)
           known == {k \in 1..Len(details) : details[k].q_id = q_id}
       IN IF IsStr(q_id) /\ q_id.v \in ErrorMarkers THEN [kind |-> "error"]
          ELSE IF Truthy(q_id) /\ known # {}
          THEN LET q_type == details[CHOOSE k \in known : TRUE].type
                   plain == response_value.t \in {"str", "null"}
               IN IF q_type \in {Str("checkbox"), Str("ranking")}
                     /\ ~IsList(response_value)
                     /\ response_value # Null /\ response_value # Str("")
                  THEN [kind |-> "error"]
                  ELSE [kind |-> "entry", q_id |-> q_id,
                        response |->
                          IF q_type \in {Str("open_ended"), Str("multiple_choice"),
                                         Str("likert_scale")} /\ ~plain
                          THEN PyStr(response_value) ELSE response_value]
          ELSE IF Truthy(q_id) THEN [kind |-> "error"]
          ELSE [kind |-> "none"]

\* the classified answers of every respondent, in processing order
Classified(details, responses) ==
  Flatten([r \in 1..Len(responses) |->
    LET resp_answers == Get(responses[r], "responses", Lst(<<>>))
        respondent_id == Get(responses[r], "respondent_id", Str("Unknown"))
    IN IF ~IsList(resp_answers)
       THEN <<[kind |-> "error", respondent_id |-> respondent_id]>>
       ELSE [a \in 1..Len(resp_answers.v) |->
               Classify(details, resp_answers.v[a])
                 @@ [respondent_id |-> respondent_id]]])

DictOrEmpty(j, k) ==
  IF IsDict(Get(j, k, Obj(<<>>))) THEN Get(j, k, Obj(<<>>)) ELSE Obj(<<>>)

\* survey_simulation.py 740-867: the processed data
process_survey_data(survey_questions, responses) ==
  LET details == QuestionDetails(survey_questions)
      classified == Classified(details, responses)
      errors == SelectSeq(classified, LAMBDA c : c.kind = "error")
      error_ids == {errors[k].respondent_id : k \in 1..Len(errors)}
  IN [survey_metadata |->
        [survey_title |-> Get(survey_questions, "survey_title", Str("Survey")),
         num_respondents_processed |-> Len(responses),
         respondent_error_counts |->
           [id \in error_ids |->
              Len(SelectSeq(errors, LAMBDA c : c.respondent_id = id))]],
      respondent_profiles |->
        [r \in 1..Len(responses) |->
           [respondent_id |-> Get(responses[r], "respondent_id", Str("Unknown")),
            demographics |-> DictOrEmpty(responses[r], "demographics"),
            psychographics |-> DictOrEmpty(responses[r], "psychographics"),
            behaviors |-> DictOrEmpty(responses[r], "behaviors"),
            response_style |-> DictOrEmpty(responses[r], "response_style")]],
      questions_aggregated |->
        [k \in 1..Len(details) |->
           details[k] @@
           [responses |->
              LET mine == SelectSeq(classified,
                            LAMBDA c : c.kind = "entry" /\ c.q_id = details[k].q_id)
              IN [m \in 1..Len(mine) |->
                    [respondent_id |-> mine[m].respondent_id,
                     response |-> mine[m].response]]]]]

(***************************************************************************)
(* analyze_survey_data, generate_visualizations, generate_final_report.    *)
(***************************************************************************)
required_json_keys ==
  {"key_metrics", "top_findings_summary", "segment_highlights",
   "demographic_summary_stats", "visualization_summary"}

GoodAnalysis ==
  Obj([key_metrics |-> Lst(<<Obj([metric |-> Str("Top box"), value |-> Num(28)])>>),
       top_findings_summary |-> Lst(<<Str("finding")>>),
       segment_highlights |-> Lst(<<>>),
       demographic_summary_stats |-> Obj([respondent_count |-> Num(2)]),
       visualization_summary |->
         Lst(<<Obj([filename |-> Str("age.png"), description |-> Str("ages")])>>)])
\* a block without visualization_summary
AnalysisMissingKeys ==
  Obj([key_metrics |-> Lst(<<>>), top_findings_summary |-> Lst(<<>>),
       segment_highlights |-> Lst(<<>>),
       demographic_summary_stats |-> Obj(<<>>)])
\* a block whose visualization_summary holds a string
AnalysisBadSummary ==
  Obj([GoodAnalysis.v EXCEPT !.visualization_summary = Lst(<<Str("chart 1")>>)])

\* survey_simulation.py 992-999
DefaultAnalysis(processed_data) ==
  Obj([error |-> Str("No JSON block found in output"),
       key_metrics |-> Lst(<<Obj([metric |-> Str("Analysis Incomplete"),
                                  value |-> Null])>>),
       top_findings_summary |-> Lst(<<Str("Analysis JSON block generation failed.")>>),
       segment_highlights |-> Lst(<<>>),
       demographic_summary_stats |->
         Obj([count |-> Num(Len(processed_data.respondent_profiles))]),
       visualization_summary |-> Lst(<<>>)])

\* survey_simulation.py 958-1020: analyze_survey_data for one backend result
\* and one outcome of the write of survey_analysis.json.  visualization_data
\* is Python's None (Null) when a block is found that does not parse or
\* lacks a required key.
analyze_survey_data(processed_data, result, writeOk) ==
  IF result.k = "raise" THEN StageRaised("backend " \o result.kind, FALSE, Null)
  ELSE IF result.final_output.w = "none"
  THEN StageRaised("AttributeError", FALSE, Null)
  ELSE LET text == result.final_output
           json_match == text.w = "fence" /\ LooksLikeObject(text.body)
           parsed == JsonLoads(text.body)
       IN IF json_match
          THEN IF parsed.ok /\ required_json_keys \subseteq DOMAIN parsed.val.v
               THEN StageReturned([narrative_report |-> "narrative",
                                   visualization_data |-> parsed.val],
                                  writeOk, "parsed")
               ELSE StageReturned([narrative_report |-> "narrative and block",
                                   visualization_data |-> Null],
                                  writeOk, "rejected")
          ELSE StageReturned([narrative_report |-> "narrative and block",
                              visualization_data |-> DefaultAnalysis(processed_data)],
                             writeOk, "fallback")

\* survey_simulation.py 1088-1094, 1100, 1133: the questions that get a chart
ChartedQuestions(processed_data) ==
  SelectSeq(processed_data.questions_aggregated,
            LAMBDA q : /\ Len(q.responses) > 0
                       /\ q.type \in {Str("multiple_choice"), Str("likert_scale"),
                                      Str("checkbox")})

\* survey_simulation.py 1023-1178: generate_visualizations; the charts are
\* saved when the visualization directory can be written, and a failed save
\* is only logged
generate_visualizations(processed_data, analysis_results, writeOk) ==
  LET visualization_data == analysis_results.visualization_data
  IN IF ~IsDict(visualization_data)
     THEN StageRaised("AttributeError", FALSE, <<>>)
     ELSE LET viz_summary == Get(visualization_data, "visualization_summary", Lst(<<>>))
              charted == ChartedQuestions(processed_data)
              question_files == [k \in 1..Len(charted) |-> charted[k].q_id]
          IN IF IsList(viz_summary)
                /\ \E k \in 1..Len(viz_summary.v) : ~IsDict(viz_summary.v[k])
             THEN [StageRaised("AttributeError", writeOk /\ question_files # <<>>,
                               IF writeOk THEN question_files ELSE <<>>)
                     EXCEPT !.tried = question_files # <<>>]
             ELSE LET custom == IF IsList(viz_summary)
                                THEN [k \in 1..Len(viz_summary.v) |->
                                        Get(viz_summary.v[k], "filename", Str("custom"))]
                                ELSE <<>>
                      saved == IF writeOk THEN question_files \o custom ELSE <<>>
                  IN [StageReturned(saved, saved # <<>>, "returned")
                        EXCEPT !.tried = question_files \o custom # <<>>]

\* survey_simulation.py 1180-1256: the report written by generate_final_report
FinalReport(topic, num_respondents, analysis_results, visualization_files) ==
  [topic |-> topic, num_respondents |-> num_respondents,
   narrative |-> analysis_results.narrative_report,
   visualizations |-> visualization_files,
   analysis_json |-> analysis_results.visualization_data]

\* what the analyst backend may answer
AnalystResults ==
  << Raise("transient"),
     Result(Fenced(JsonBody(GoodAnalysis))),
     Result(Fenced(JsonBody(AnalysisMissingKeys))),
     Result(Fenced(JsonBody(AnalysisBadSummary))),
     Result(Fenced(Malformed("brace"))),
     Result(Bare(Malformed("prose"))) >>

(***************************************************************************)
(* focus_group_simulation.py: PersonaProfile and the body of               *)
(* generate_persona_profiles.                                              *)
(***************************************************************************)
\* focus_group_simulation.py 336: stop_after_attempt(3)
stop_after_attempt == 3

\* focus_group_simulation.py 338: retry_if_exception_type
retry_if_exception_type == {"JSONDecodeError", "ValidationError"}

\* focus_group_simulation.py 337: wait_exponential(multiplier=1, min=2, max=10)
multiplier == 1
wait_min == 2
wait_max == 10

Min(a, b) == IF a < b THEN a ELSE b

\* a wait that is not raised to the minimum
wait_exponential_unclamped(attempt) == Min(multiplier * 2 ^ (attempt - 1), wait_max)

\* focus_group_simulation.py 337: the seconds waited after attempt number
\* `attempt` failed: multiplier * 2^(attempt - 1), kept within [min, max]
wait_exponential(attempt) ==
  LET exp == 2 ^ (attempt - 1)
      result == multiplier * exp
      low == IF wait_min > 0 THEN wait_min ELSE 0
      capped == Min(result, wait_max)
  IN IF low > capped THEN low ELSE capped

\* str.isdigit() and int() on the age strings the model uses
DigitValue == ("41" :> 41) @@ ("7" :> 7)

\* focus_group_simulation.py 84-89
validate_age(v) ==
  IF IsStr(v) /\ v.v \in DOMAIN DigitValue THEN Num(DigitValue[v.v]) ELSE v

\* focus_group_simulation.py 67-89: PersonaProfile(**kw).  The fields the
\* model keeps are name, age, gender, occupation, education, demographics,
\* motivations and challenges; a keyword that is no field is ignored.
PersonaProfile(kw) ==
  LET name == Get(kw, "name", Str("Unknown"))
      age == Get(kw, "age", Str("Unknown"))
      gender == Get(kw, "gender", Str("Unknown"))
      occupation == Get(kw, "occupation", Str("Unknown"))
      education == Get(kw, "education", Str("Unknown"))
      demographics == Get(kw, "demographics", Obj(<<>>))
      motivations == Get(kw, "motivations", Null)
      challenges == Get(kw, "challenges", Null)
  IN IF /\ IsStr(name) /\ IsStr(gender) /\ IsStr(occupation)
        /\ (IsNumber(age) \/ IsStr(age))
        /\ (IsStr(education) \/ education = Null)
        /\ IsDict(demographics)
        /\ (IsStr(motivations) \/ motivations = Null)
        /\ (IsStr(challenges) \/ challenges = Null)
     THEN Parsed(Obj([name |-> name, age |-> validate_age(age),
                      gender |-> gender, occupation |-> occupation,
                      education |-> education, demographics |-> demographics,
                      motivations |-> motivations, challenges |-> challenges]))
     ELSE Failed("ValidationError")

\* focus_group_simulation.py 414-419: the persona built from what a raw
\* persona that failed validation provides
PartialPersona(raw_persona, i) ==
  PersonaProfile(Obj([name |-> Get(raw_persona, "name",
                                   Str("Person " \o ToString(i + 1))),
                      age |-> Get(raw_persona, "age", Num(30)),
                      gender |-> Get(raw_persona, "gender", Str("Not specified")),
                      occupation |-> Get(raw_persona, "occupation",
                                         Str("Professional"))]))

\* focus_group_simulation.py 426-432: the persona that fills position i
\* (counted from 0) of a short list
FillPersona(i) ==
  PersonaProfile(Obj([name |-> Str("Generic Person " \o ToString(i + 1)),
                      age |-> Num(30 + i),
                      gender |-> Str("Not specified"),
                      occupation |-> Str("Professional")])).val

\* focus_group_simulation.py 456-463: the personas of the except clause
GenericPersonas(num_participants) ==
  [i \in 1..num_participants |->
     PersonaProfile(Obj([name |-> Str("Generic Person " \o ToString(i)),
                         age |-> Num(30 + i),
                         gender |-> Str("Not specified"),
                         occupation |-> Str("Professional"),
                         motivations |-> Str("To participate in this focus group"),
                         challenges |-> Str("Generic challenges")])).val]

\* focus_group_simulation.py 406-420: one raw persona of the loop becomes a
\* persona, or the loop is left by an exception
ConvertPersona(raw_persona, i) ==
  IF ~IsDict(raw_persona) THEN Failed("TypeError")
  ELSE IF PersonaProfile(raw_persona).ok THEN PersonaProfile(raw_persona)
  ELSE PartialPersona(raw_persona, i)

\* focus_group_simulation.py 406: enumerate(raw_personas).  A list yields
\* its elements; a dict yields its keys, which are strings, so the first
\* PersonaProfile(**key) raises TypeError unless the dict is empty; a number,
\* a boolean and null are not iterable.
Iterate(val) ==
  CASE IsList(val) -> Parsed(val.v)
    [] IsDict(val) /\ DOMAIN val.v = {} -> Parsed(<<>>)
    [] OTHER -> Failed("TypeError")

\* what generate_persona_profiles hands to the retry decorator
PersonasReturned(value, path, wrote) ==
  [raised |-> FALSE, err |-> "", value |-> value, path |-> path, wrote |-> wrote]

\* focus_group_simulation.py 391-463: the body of generate_persona_profiles
\* for one backend result and one outcome of the write of the personas
\* file.  The except clause catches every Exception of the try block.
generate_persona_profiles(num_participants, result, writeOk) ==
  LET fallback == PersonasReturned(GenericPersonas(num_participants),
                                   "fallback", FALSE)
  IN IF result.k = "raise" \/ result.final_output.w = "none" THEN fallback
     ELSE LET loaded == JsonLoads(result.final_output.body) IN
       IF ~loaded.ok THEN fallback
       ELSE IF ~Iterate(loaded.val).ok THEN fallback
       ELSE LET raw_personas == Iterate(loaded.val).val
                converted == [i \in 1..Len(raw_personas) |->
                                ConvertPersona(raw_personas[i], i - 1)]
            IN IF \E i \in 1..Len(raw_personas) : ~converted[i].ok
               THEN fallback
               ELSE LET personas ==
                          [i \in 1..Max(Len(raw_personas), num_participants) |->
                             IF i <= Len(raw_personas) THEN converted[i].val
                             ELSE FillPersona(i - 1)]
                    IN IF ~writeOk THEN fallback
                       ELSE PersonasReturned(Take(personas, num_participants),
                                             "parsed", TRUE)

\* focus_group_simulation.py 392-450: the class of the exception `e` that the
\* except clause of line 450 receives, "" when the try block runs to its
\* return.  Runner.run raises what the backend raised; re.search on a
\* final_output of None raises TypeError; json.loads raises JSONDecodeError;
\* a ValidationError of line 410 is caught at 412 and one of line 415 is not;
\* open() and json.dump raise OSError.
persona_error(num_participants, result, writeOk) ==
  IF result.k = "raise" THEN result.kind
  ELSE IF result.final_output.w = "none" THEN "TypeError"
  ELSE LET loaded == JsonLoads(result.final_output.body) IN
    IF ~loaded.ok THEN "JSONDecodeError"
    ELSE IF ~Iterate(loaded.val).ok THEN "TypeError"
    ELSE LET raw_personas == Iterate(loaded.val).val
             converted == [i \in 1..Len(raw_personas) |->
                             ConvertPersona(raw_personas[i], i - 1)]
             failing == {i \in 1..Len(raw_personas) : ~converted[i].ok}
         IN IF failing # {}
            THEN converted[CHOOSE i \in failing : \A j \in failing : i <= j].err
            ELSE IF ~writeOk THEN "OSError" ELSE ""

PersonaA ==
  Obj([name |-> Str("Ana"), age |-> Num(34), gender |-> Str("Female"),
       occupation |-> Str("Nurse"), education |-> Str("BSc"),
       demographics |-> Obj([marital_status |-> Str("Single")]),
       motivations |-> Str("Health"), challenges |-> Str("Time")])
PersonaB == Obj([PersonaA.v EXCEPT !.name = Str("Ben"), !.age = Num(52)])
\* an age given as a string of digits
PersonaAgeString == Obj([PersonaA.v EXCEPT !.age = Str("41")])
\* demographics given as a string
PersonaBadNested == Obj([PersonaA.v EXCEPT !.demographics = Str("single")])
\* a name that is no string
PersonaBadName == Obj([PersonaA.v EXCEPT !.name = Num(7)])
\* only a name
PersonaNameOnly == Obj([name |-> Str("Cy")])

\* what the persona generator backend may answer
PersonaResults ==
  << Raise("transient"), NoOutput,
     Result(Fenced(JsonBody(Lst(<<PersonaA, PersonaB>>)))),
     Result(Bare(JsonBody(Lst(<<PersonaB, PersonaA, PersonaNameOnly>>)))),
     Result(Bare(JsonBody(Lst(<<PersonaAgeString>>)))),
     Result(Fenced(JsonBody(Lst(<<PersonaBadNested, PersonaB>>)))),
     Result(Fenced(JsonBody(Lst(<<PersonaA, PersonaBadName>>)))),
     Result(Bare(JsonBody(Lst(<<Str("a persona")>>)))),
     Result(Fenced(JsonBody(PersonaA))),
     Result(Fenced(JsonBody(Lst(<<>>)))),
     Result(Fenced(Malformed("bracket"))),
     Result(Bare(Malformed("bracket"))),
     Result(Bare(Malformed("prose"))) >>

(***************************************************************************)
(* run_simulation (focus group) and run_interview (in-depth interview):    *)
(* the turns, the context and the prompts.                                 *)
(***************************************************************************)
\* focus_group_simulation.py 124-131: DialogueEntry(...).  content must be a
\* str; the timestamp is left out.
DialogueEntry(speaker_id, speaker_name, content) ==
  IF IsStr(content)
  THEN Parsed([speaker_id |-> speaker_id, speaker_name |-> speaker_name,
               content |-> content])
  ELSE Failed("ValidationError")

\* what an f-string makes of a final_output
Format(x) == IF x = Null THEN "None" ELSE x.v

\* focus_group_simulation.py 474-476: the participant agents made of personas
ParticipantAgents(personas) ==
  [i \in 1..Len(personas) |->
     [persona_id |-> "Participant_" \o ToString(i), persona_profile |-> personas[i]]]

\* the personas of a focus group of n: two parsed personas, then personas
\* that filled a short list
Personas(n) ==
  [i \in 1..n |-> IF i = 1 THEN PersonaProfile(PersonaA).val
                  ELSE IF i = 2 THEN PersonaProfile(PersonaB).val
                  ELSE FillPersona(i - 1)]

Topic_fg == "footwear"

\* focus_group_simulation.py 492-498: the context before the first round, one
\* line for the topic and one per participant
InitialContext(participants) ==
  <<[line |-> "topic", text |-> Topic_fg]>> \o
  [i \in 1..Len(participants) |->
     [line |-> "intro", text |-> participants[i].persona_id]]

\* a line that names the speaker and leaves the text out
ContextLineWithoutText(label, text) == [line |-> "turn", label |-> label, text |-> ""]

\* a line a turn adds to the context: "\n<label>: <text>"
ContextLine(label, text) == [line |-> "turn", label |-> label, text |-> text]

\* focus_group_simulation.py 546, 601, 641: the fallback messages
ModeratorFallback == Str("Let's move forward with our discussion on " \o Topic_fg)
ParticipantFallback(profile) ==
  Str("I'm interested in this topic from my perspective as "
        \o profile.v.occupation.v)
ConclusionFallback == Str("Thank you all for your participation")

\* the text the backend generates for turn number n
Said(n) == Str("turn " \o ToString(n))

\* what a generation call of a dialogue may come back with: text, no text
\* (final_output None), or an exception
TurnResults(n) == {Result(Said(n)), Result(Null), Raise("transient")}

\* focus_group_simulation.py 530-556, 585-611, 621-650: the entry one turn
\* adds to the transcript, the try block's when it runs to its end and the
\* except clause's otherwise
TurnEntry(speaker_id, speaker_name, result, fallback_msg) ==
  IF result.k = "ok" /\ DialogueEntry(speaker_id, speaker_name, result.final_output).ok
  THEN [entry |-> DialogueEntry(speaker_id, speaker_name, result.final_output).val,
        fallback |-> FALSE]
  ELSE [entry |-> DialogueEntry(speaker_id, speaker_name, fallback_msg).val,
        fallback |-> TRUE]

(***************************************************************************)
(* analyze_transcript (focus group): the recomputed metrics, the analyst's *)
(* block and the analysis data.  Floats are written in hundredths.         *)
(***************************************************************************)
\* len(content.split()) of the contents the model uses
WordCount ==
  ("Welcome everyone" :> 2) @@ ("I like it" :> 3) @@ ("good" :> 1) @@
  ("Thank you all" :> 3)

Entry(speaker_id, speaker_name, text) ==
  DialogueEntry(speaker_id, speaker_name, Str(text)).val

\* transcripts of one round: the first participant speaks twice
OneParticipantTranscript ==
  << Entry("Moderator", "Moderator", "Welcome everyone"),
     Entry("Participant_1", "Ana", "I like it"),
     Entry("Participant_1", "Ana", "good"),
     Entry("Moderator", "Moderator", "Thank you all") >>
TwoParticipantTranscript ==
  << Entry("Moderator", "Moderator", "Welcome everyone"),
     Entry("Participant_1", "Ana", "I like it"),
     Entry("Participant_2", "Ben", "good"),
     Entry("Participant_1", "Ana", "good"),
     Entry("Moderator", "Moderator", "Thank you all") >>
AnalysisTranscripts == <<OneParticipantTranscript, TwoParticipantTranscript>>

\* the speakers of a transcript
Speakers(entries) == {entries[i].speaker_id : i \in 1..Len(entries)}

RECURSIVE SumWords(_, _)
\* focus_group_simulation.py 671-682: the words speaker_id said
SumWords(entries, speaker_id) ==
  IF entries = <<>> THEN 0
  ELSE (IF Head(entries).speaker_id = speaker_id
        THEN WordCount[Head(entries).content.v] ELSE 0)
       + SumWords(Tail(entries), speaker_id)

\* focus_group_simulation.py 667-683: word_counts and response_counts
word_counts(entries) ==
  [speaker_id \in Speakers(entries) |-> SumWords(entries, speaker_id)]
response_counts(entries) ==
  [speaker_id \in Speakers(entries) |->
     Cardinality({i \in 1..Len(entries) : entries[i].speaker_id = speaker_id})]

\* focus_group_simulation.py 133-147: SentimentScore(...) with its validator:
\* a total outside [0.99, 1.01] is normalised by 1.0 / total
SentimentScore(positive, neutral, negative) ==
  LET total == positive + neutral + negative
  IN IF 99 <= total /\ total <= 101
     THEN Parsed([positive |-> positive, neutral |-> neutral,
                  negative |-> negative])
     ELSE IF total = 0 THEN Failed("ZeroDivisionError")
     ELSE Parsed([positive |-> (positive * 100) \div total,
                  neutral |-> (neutral * 100) \div total,
                  negative |-> (negative * 100) \div total])

\* focus_group_simulation.py 159-163: ParticipantSentiment(...): no validator
ParticipantSentiment(positive, neutral, negative, name) ==
  [positive |-> positive, neutral |-> neutral, negative |-> negative,
   name |-> name]

\* focus_group_simulation.py 154-157.  The interaction score is left out.
ParticipantMetrics(word_count, response_count) ==
  [word_count |-> word_count, response_count |-> response_count]

\* the three numbers of a sentiment object are there
IsTriple(j) ==
  /\ IsDict(j)
  /\ {"positive", "neutral", "negative"} \subseteq DOMAIN j.v
  /\ IsNumber(j.v.positive) /\ IsNumber(j.v.neutral) /\ IsNumber(j.v.negative)

\* focus_group_simulation.py 165-169: the field types of AnalysisData
AnalysisFieldsValid(data_dict) ==
  /\ {"sentiment_breakdown", "key_themes", "participant_sentiment",
      "engagement_metrics"} \subseteq DOMAIN data_dict.v
  /\ IsTriple(data_dict.v.sentiment_breakdown)
  /\ IsList(data_dict.v.key_themes)
  /\ IsDict(data_dict.v.participant_sentiment)
  /\ \A pid \in DOMAIN data_dict.v.participant_sentiment.v :
        LET ps == data_dict.v.participant_sentiment.v[pid]
        IN IsTriple(ps) /\ HasKey(ps, "name") /\ IsStr(ps.v.name)
  /\ IsDict(data_dict.v.engagement_metrics)
  /\ \A sid \in DOMAIN data_dict.v.engagement_metrics.v :
        LET m == data_dict.v.engagement_metrics.v[sid]
        IN /\ IsDict(m)
           /\ {"word_count", "response_count", "interaction_score"}
                 \subseteq DOMAIN m.v
           /\ IsNumber(m.v.word_count) /\ IsNumber(m.v.response_count)
           /\ IsNumber(m.v.interaction_score)

\* focus_group_simulation.py 179: cls(**data_dict)
AnalysisData(data_dict) ==
  IF ~IsDict(data_dict) THEN Failed("TypeError")
  ELSE IF ~AnalysisFieldsValid(data_dict) THEN Failed("ValidationError")
  ELSE LET sb == data_dict.v.sentiment_breakdown.v
           score == SentimentScore(sb.positive.v, sb.neutral.v, sb.negative.v)
           ps == data_dict.v.participant_sentiment.v
           em == data_dict.v.engagement_metrics.v
       IN IF ~score.ok THEN score
          ELSE Parsed([sentiment_breakdown |-> score.val,
                       key_themes |-> data_dict.v.key_themes.v,
                       participant_sentiment |->
                         [pid \in DOMAIN ps |->
                            ParticipantSentiment(ps[pid].v.positive.v,
                                                 ps[pid].v.neutral.v,
                                                 ps[pid].v.negative.v,
                                                 ps[pid].v.name.v)],
                       engagement_metrics |->
                         [sid \in DOMAIN em |->
                            ParticipantMetrics(em[sid].v.word_count.v,
                                               em[sid].v.response_count.v)]])

\* focus_group_simulation.py 185-190: the default values
AnalysisDefaults ==
  [sentiment_breakdown |-> SentimentScore(33, 34, 33).val,
   key_themes |-> <<Str("Error in analysis")>>,
   participant_sentiment |-> <<>>,
   engagement_metrics |-> <<>>]

\* focus_group_simulation.py 171-190: from_json_str.  Only ValidationError
\* and JSONDecodeError are caught.
from_json_str(json_str) ==
  IF json_str.w = "none" THEN Failed("TypeError")
  ELSE IF json_str.w # "fence" THEN Failed("ValueError")
  ELSE LET loaded == JsonLoads(json_str.body) IN
    IF ~loaded.ok THEN Parsed(AnalysisDefaults)
    ELSE LET data == AnalysisData(loaded.val) IN
      IF data.ok THEN data
      ELSE IF data.err = "ValidationError" THEN Parsed(AnalysisDefaults)
      ELSE data

\* focus_group_simulation.py 766-778, 816-827: the triple made of a polarity
FromPolarity(sentiment_polarity) ==
  IF sentiment_polarity > 10
  THEN [positive |-> 50 + sentiment_polarity \div 2,
        neutral |-> 100 - (50 + sentiment_polarity \div 2), negative |-> 0]
  ELSE IF sentiment_polarity < -10
  THEN [positive |-> 0,
        neutral |-> 100 - (50 + (0 - sentiment_polarity) \div 2),
        negative |-> 50 + (0 - sentiment_polarity) \div 2]
  ELSE LET pos == (sentiment_polarity + 10) * 5
           neg == (IF sentiment_polarity - 10 < 0 THEN 10 - sentiment_polarity
                   ELSE sentiment_polarity - 10) * 5
       IN [positive |-> pos, neutral |-> 100 - (pos + neg), negative |-> neg]

\* the polarities TextBlob may find
Polarities == {-50, 0, 50}

\* focus_group_simulation.py 663: participant_info
ParticipantInfo(participant_data) ==
  [pid \in {"Participant_" \o ToString(i) : i \in 1..Len(participant_data)} |->
     participant_data[CHOOSE i \in 1..Len(participant_data) :
                         pid = "Participant_" \o ToString(i)]]

\* focus_group_simulation.py 741-755, 867-876: the metrics made of the
\* recomputed counts, the moderator left out
ComputedMetrics(entries) ==
  [speaker_id \in Speakers(entries) \ {"Moderator"} |->
     ParticipantMetrics(word_counts(entries)[speaker_id],
                        response_counts(entries)[speaker_id])]

\* focus_group_simulation.py 739-756: the analyst's metrics are replaced by
\* the recomputed ones only when there are none
MetricsKept(reported, entries) ==
  IF DOMAIN reported = {} THEN ComputedMetrics(entries) ELSE reported

\* focus_group_simulation.py 656-905: the analysis data analyze_transcript
\* returns for a transcript, the personas, one backend result, and the
\* polarity TextBlob finds in the texts
analyze_transcript(entries, participant_data, result, sentiment_polarity) ==
  LET participant_info == ParticipantInfo(participant_data)
      text_sentiment(pid) ==
        LET t == FromPolarity(sentiment_polarity)
        IN ParticipantSentiment(t.positive, t.neutral, t.negative,
                                participant_info[pid].v.name.v)
      parsed == IF result.k = "raise" THEN Failed(result.kind)
                ELSE from_json_str(result.final_output)
  IN IF parsed.ok
     THEN [path |-> "parsed",
           analysis_data |->
             [parsed.val EXCEPT
                !.engagement_metrics = MetricsKept(@, entries),
                !.participant_sentiment =
                   [pid \in DOMAIN @ \cup DOMAIN participant_info |->
                      IF pid \in DOMAIN @ THEN @[pid] ELSE text_sentiment(pid)]]]
     ELSE [path |-> "fallback",
           analysis_data |->
             [sentiment_breakdown |->
                LET t == FromPolarity(sentiment_polarity)
                IN SentimentScore(t.positive, t.neutral, t.negative).val,
              key_themes |-> <<Str("General Discussion")>>,
              participant_sentiment |->
                [pid \in DOMAIN participant_info |-> text_sentiment(pid)],
              engagement_metrics |-> ComputedMetrics(entries)]]

\* the blocks of the analyst
Triple(positive, neutral, negative) ==
  Obj([positive |-> Num(positive), neutral |-> Num(neutral),
       negative |-> Num(negative)])
NamedTriple(positive, neutral, negative, name) ==
  Obj([positive |-> Num(positive), neutral |-> Num(neutral),
       negative |-> Num(negative), name |-> Str(name)])
Metrics(word_count, response_count) ==
  Obj([word_count |-> Num(word_count), response_count |-> Num(response_count),
       interaction_score |-> Num(1)])
Block(sentiment_breakdown, participant_sentiment, engagement_metrics) ==
  Obj([sentiment_breakdown |-> sentiment_breakdown,
       key_themes |-> Lst(<<>>),
       participant_sentiment |-> Obj(participant_sentiment),
       engagement_metrics |-> Obj(engagement_metrics)])

\* a block that reports no metrics
BlockNoMetrics ==
  Block(Triple(50, 30, 20), [Participant_1 |-> NamedTriple(60, 30, 10, "Ana")],
        <<>>)
\* a block whose metrics are those of the transcripts above
BlockTrueMetrics ==
  Block(Triple(50, 30, 20), <<>>, [Participant_1 |-> Metrics(4, 2)])
\* a block whose metrics differ from the transcript
BlockOtherMetrics ==
  Block(Triple(50, 30, 20), <<>>, [Participant_1 |-> Metrics(99, 7)])
\* an overall triple that sums to 2
BlockTotalTwo == Block(Triple(50, 50, 100), <<>>, <<>>)
\* an overall triple that sums to 0
BlockTotalZero == Block(Triple(0, 0, 0), <<>>, <<>>)
\* a participant's triple that sums to 1.5
BlockParticipantTotal ==
  Block(Triple(50, 30, 20), [Participant_1 |-> NamedTriple(50, 50, 50, "Ana")],
        <<>>)
\* a block without key_themes
BlockMissingKey ==
  Obj([sentiment_breakdown |-> Triple(50, 30, 20),
       participant_sentiment |-> Obj(<<>>), engagement_metrics |-> Obj(<<>>)])

\* what the analyst backend of the focus group may answer
TranscriptAnalystResults ==
  << Raise("transient"), NoOutput,
     Result(Fenced(JsonBody(BlockNoMetrics))),
     Result(Fenced(JsonBody(BlockTrueMetrics))),
     Result(Fenced(JsonBody(BlockOtherMetrics))),
     Result(Fenced(JsonBody(BlockTotalTwo))),
     Result(Fenced(JsonBody(BlockTotalZero))),
     Result(Fenced(JsonBody(BlockParticipantTotal))),
     Result(Fenced(JsonBody(BlockMissingKey))),
     Result(Fenced(JsonBody(Lst(<<BlockNoMetrics>>)))),
     Result(Fenced(Malformed("brace"))),
     Result(Bare(JsonBody(BlockNoMetrics))) >>

(***************************************************************************)
(* generate_respondent_persona (in-depth interview): extraction,           *)
(* validation and the generic persona.                                     *)
(***************************************************************************)
\* the persona a compliant generator returns
GoodPersona ==
  Obj([name |-> Str("Alex Chen"), age |-> Num(38), gender |-> Str("Male"),
       occupation |-> Str("Engineer"), education |-> Str("MSc"),
       location |-> Str("Chicago"), income_bracket |-> Str("Middle"),
       demographics |-> Obj([ethnicity |-> Str("East Asian"),
                             marital_status |-> Str("Married"),
                             household_composition |-> Str("With partner"),
                             other_relevant_demographics |-> Null]),
       psychographics |-> Obj([values |-> Lst(<<Str("Security")>>),
                               interests |-> Lst(<<Str("Chess")>>),
                               lifestyle_details |-> Str("Commutes by bike"),
                               personality_traits |-> Lst(<<Str("Cautious")>>)]),
       behaviors |-> Obj([consumption_patterns |-> Str("Desktop banking"),
                          usage_habits |-> Str("Weekly"),
                          other_relevant_behaviors |-> Null]),
       attitudes |-> Obj([opinions |-> Str("Fees are high"),
                          beliefs |-> Str("Security matters"),
                          sentiments_towards_topic |-> Str("Skeptical")]),
       media_consumption |-> Lst(<<Str("BBC News")>>),
       motivations |-> Str("Saving time"), challenges |-> Str("Trust"),
       topic_experience |-> Str("Used app X"),
       brand_affinities |-> Lst(<<Str("Nike")>>),
       communication_style |-> Str("Concise")])

\* a record without field k
Without(f, k) == [x \in DOMAIN f \ {k} |-> f[x]]

\* personas that parse but violate the validation
PersonaMissingKey == Obj(Without(GoodPersona.v, "communication_style"))
PersonaNestedString == Obj([GoodPersona.v EXCEPT !.attitudes = Str("Skeptical")])
PersonaNestedMissingKey ==
  Obj([GoodPersona.v EXCEPT
         !.behaviors = Obj(Without(GoodPersona.v.behaviors.v, "usage_habits"))])
PersonaAgeNotNumber == Obj([GoodPersona.v EXCEPT !.age = Str("38")])
PersonaValuesNotList ==
  Obj([GoodPersona.v EXCEPT
         !.psychographics = Obj([GoodPersona.v.psychographics.v EXCEPT
                                   !.values = Str("Security")])])
PersonaMediaNotList == Obj([GoodPersona.v EXCEPT !.media_consumption = Str("BBC")])

\* a generic persona whose age is not a number
generic_persona_age_unknown ==
  Obj([name |-> Str("Generic Person"), age |-> Str("N/A"), gender |-> Str("Unknown"),
       occupation |-> Str("Professional"), education |-> Str("N/A"),
       location |-> Str("N/A"), income_bracket |-> Str("N/A"),
       demographics |-> Obj([ethnicity |-> Str("N/A"),
                             marital_status |-> Str("N/A"),
                             household_composition |-> Str("N/A"),
                             other_relevant_demographics |-> Null]),
       psychographics |-> Obj([values |-> Lst(<<>>), interests |-> Lst(<<>>),
                               lifestyle_details |-> Str("N/A"),
                               personality_traits |-> Lst(<<Str("Neutral")>>)]),
       behaviors |-> Obj([consumption_patterns |-> Str("N/A"),
                          usage_habits |-> Str("N/A"),
                          other_relevant_behaviors |-> Null]),
       attitudes |-> Obj([opinions |-> Str("Neutral opinion"),
                          beliefs |-> Str("Neutral beliefs"),
                          sentiments_towards_topic |-> Str("Neutral")]),
       media_consumption |-> Lst(<<>>), motivations |-> Str("N/A"),
       challenges |-> Str("N/A"), topic_experience |-> Str("Some familiarity"),
       brand_affinities |-> Lst(<<>>), communication_style |-> Str("Moderate")])

\* idi_simulation.py 359-368
generic_persona ==
  Obj([name |-> Str("Generic Person"), age |-> Num(35), gender |-> Str("Unknown"),
       occupation |-> Str("Professional"), education |-> Str("N/A"),
       location |-> Str("N/A"), income_bracket |-> Str("N/A"),
       demographics |-> Obj([ethnicity |-> Str("N/A"),
                             marital_status |-> Str("N/A"),
                             household_composition |-> Str("N/A"),
                             other_relevant_demographics |-> Null]),
       psychographics |-> Obj([values |-> Lst(<<>>), interests |-> Lst(<<>>),
                               lifestyle_details |-> Str("N/A"),
                               personality_traits |-> Lst(<<Str("Neutral")>>)]),
       behaviors |-> Obj([consumption_patterns |-> Str("N/A"),
                          usage_habits |-> Str("N/A"),
                          other_relevant_behaviors |-> Null]),
       attitudes |-> Obj([opinions |-> Str("Neutral opinion"),
                          beliefs |-> Str("Neutral beliefs"),
                          sentiments_towards_topic |-> Str("Neutral")]),
       media_consumption |-> Lst(<<>>), motivations |-> Str("N/A"),
       challenges |-> Str("N/A"), topic_experience |-> Str("Some familiarity"),
       brand_affinities |-> Lst(<<>>), communication_style |-> Str("Moderate")])

\* idi_simulation.py 300-308: locate the object and parse it.  The pattern
\* takes a fenced object only; any other fenced text starts with a backquote
\* and is refused by the startswith test.
PersonaExtract(text) ==
  IF text.w = "none" THEN Failed("TypeError")
  ELSE IF ~LooksLikeObject(text.body) THEN Failed("ValueError")
  ELSE JsonLoads(text.body)

\* idi_simulation.py 314-319
persona_required_keys ==
  {"name", "age", "gender", "occupation", "education", "location",
   "income_bracket", "demographics", "psychographics", "behaviors", "attitudes",
   "media_consumption", "motivations", "challenges", "topic_experience",
   "brand_affinities", "communication_style"}

\* idi_simulation.py 325-330
persona_required_nested_keys ==
  [demographics |-> {"ethnicity", "marital_status", "household_composition"},
   psychographics |-> {"values", "interests", "lifestyle_details",
                       "personality_traits"},
   behaviors |-> {"consumption_patterns", "usage_habits"},
   attitudes |-> {"opinions", "beliefs", "sentiments_towards_topic"}]

\* idi_simulation.py 311-342: the checks that raise ValueError
PersonaValid(persona) ==
  /\ IsDict(persona)
  /\ persona_required_keys \subseteq DOMAIN persona.v
  /\ \A nested_key \in DOMAIN persona_required_nested_keys :
        /\ IsDict(persona.v[nested_key])
        /\ persona_required_nested_keys[nested_key]
              \subseteq DOMAIN persona.v[nested_key].v
  /\ IsNumber(persona.v.age)
  /\ IsDict(persona.v.demographics)
  /\ IsList(persona.v.psychographics.v.values)
  /\ IsList(persona.v.media_consumption)

\* idi_simulation.py 288-376: generate_respondent_persona for one backend
\* result, one outcome of the write of the parsed persona and one of the
\* write of the generic persona
generate_respondent_persona(result, writeOk, fallbackWriteOk) ==
  IF result.k = "raise" THEN StageRaised("backend " \o result.kind, FALSE, Null)
  ELSE LET ex == PersonaExtract(result.final_output) IN
    IF ex.ok /\ PersonaValid(ex.val) /\ writeOk
    THEN StageReturned(ex.val, TRUE, "parsed")
    ELSE StageReturned(generic_persona, fallbackWriteOk, "fallback")

\* what the persona generator backend of the interview may answer
RespondentPersonaResults ==
  << Raise("transient"), NoOutput,
     Result(Fenced(JsonBody(GoodPersona))),
     Result(Bare(JsonBody(GoodPersona))),
     Result(Fenced(JsonBody(PersonaMissingKey))),
     Result(Fenced(JsonBody(PersonaNestedString))),
     Result(Bare(JsonBody(PersonaNestedMissingKey))),
     Result(Fenced(JsonBody(PersonaAgeNotNumber))),
     Result(Fenced(JsonBody(PersonaValuesNotList))),
     Result(Bare(JsonBody(PersonaMediaNotList))),
     Result(Fenced(JsonBody(Lst(<<GoodPersona>>)))),
     Result(Fenced(Malformed("brace"))),
     Result(Bare(Malformed("prose"))) >>

(***************************************************************************)
(* run_survey_simulation: the state of one run.                            *)
(***************************************************************************)
VARIABLES
  num_respondents,     \* the run parameter
  stage,               \* the stage the run is at, or its final position
  phase,               \* "ready": about to call the stage; "awaiting": inside it
  started,             \* the stages called so far, in call order
  returned,            \* the stages that have returned, in return order
  files,               \* the run directory: file name -> content
  reply,               \* the backend result the running stage received
  survey_questions,    \* locals of run_survey_simulation
  respondents,
  responses,
  processed_data,
  analysis_results,
  visualization_files,
  tasks,               \* collect_survey_responses: the tasks created
  results,             \* collect_survey_responses: what gather() holds per task
  calls,               \* Runner.run calls made per respondent
  error,               \* str(e) of the exception that reached the handler
  write_failures,      \* writes that have failed so far
  num_participants,    \* the parameter of generate_persona_profiles
  attempt_number,      \* the attempt the retry decorator is at
  persona_pc,          \* where a call of generate_persona_profiles is
  persona_reply,       \* the backend result the current attempt received
  persona_outcome,     \* what the body handed to the decorator
  personas,            \* what the call returned
  personas_file,       \* whether output_data/personas_<timestamp>.json exists
  delays,              \* the waits the retry decorator has made, in order
  num_rounds,          \* the parameter of run_simulation
  participants,        \* the participant agents of run_simulation
  round_num,           \* the round run_simulation is in
  speaker,             \* the position of the participant loop
  num_questions,       \* the parameter of run_interview
  question_count,      \* run_interview: the questions asked so far
  dlg_pc,              \* the turn a dialogue is at, or its final position
  transcript,          \* the turns made so far
  current_context,     \* the lines of the context string
  prompt,              \* the prompt of the generation call that is outstanding
  outstanding,         \* the generation calls that have not come back
  fallbacks,           \* the positions of the transcript an except clause filled
  turn_failures,       \* generation calls that gave no text so far
  dlg_error,           \* the exception that left the dialogue
  applied              \* a function applied on its own: its inputs and its result

vars == <<num_respondents, stage, phase, started, returned, files, reply,
          survey_questions, respondents, responses, processed_data,
          analysis_results, visualization_files, tasks, results, calls, error,
          write_failures, num_participants, attempt_number, persona_pc,
          persona_reply, persona_outcome, personas, personas_file, delays,
          num_rounds, participants, round_num, speaker, num_questions,
          question_count, dlg_pc, transcript, current_context, prompt,
          outstanding, fallbacks, turn_failures, dlg_error, applied>>

\* the state of run_survey_simulation and that of generate_persona_profiles
surveyVars == <<num_respondents, stage, phase, started, returned, files, reply,
                survey_questions, respondents, responses, processed_data,
                analysis_results, visualization_files, tasks, results, calls,
                error, write_failures>>
personaVars == <<num_participants, attempt_number, persona_pc, persona_reply,
                 persona_outcome, personas, personas_file, delays>>
dialogueVars == <<num_rounds, participants, round_num, speaker, num_questions,
                  question_count, dlg_pc, transcript, current_context, prompt,
                  outstanding, fallbacks, turn_failures, dlg_error>>

\* the outcomes a write to the run directory can have
WriteOutcomes == {TRUE} \cup {b \in {FALSE} : write_failures < MaxWriteFailures}

Absent == [t |-> "absent"]
File(data) == [t |-> "file", data |-> data]
NoReply == [k |-> "none"]
Pending == [k |-> "pending"]
Unset == [t |-> "unset"]

FileNames ==
  {"survey_questions.json", "respondents.json", "survey_responses_raw.json",
   "survey_data_processed.json", "survey_analysis.json", "visualizations",
   "report.md", "parameters.json"}

\* a pipeline that goes from the analysis straight to the report
NextStageSkipping(s) ==
  CASE s = "design_survey" -> "generate_respondents"
    [] s = "generate_respondents" -> "collect_survey_responses"
    [] s = "collect_survey_responses" -> "process_survey_data"
    [] s = "process_survey_data" -> "analyze_survey_data"
    [] s = "analyze_survey_data" -> "generate_final_report"
    [] s = "generate_visualizations" -> "generate_final_report"
    [] s = "generate_final_report" -> "save_parameters"

\* survey_simulation.py 1279-1320: the statement that follows each stage
NextStage(s) ==
  CASE s = "design_survey" -> "generate_respondents"
    [] s = "generate_respondents" -> "collect_survey_responses"
    [] s = "collect_survey_responses" -> "process_survey_data"
    [] s = "process_survey_data" -> "analyze_survey_data"
    [] s = "analyze_survey_data" -> "generate_visualizations"
    [] s = "generate_visualizations" -> "generate_final_report"
    [] s = "generate_final_report" -> "save_parameters"

\* the file each stage saves its artifact to
ArtifactOf(s) ==
  CASE s = "design_survey" -> "survey_questions.json"
    [] s = "generate_respondents" -> "respondents.json"
    [] s = "collect_survey_responses" -> "survey_responses_raw.json"
    [] s = "process_survey_data" -> "survey_data_processed.json"
    [] s = "analyze_survey_data" -> "survey_analysis.json"
    [] s = "generate_visualizations" -> "visualizations"
    [] s = "generate_final_report" -> "report.md"

NoPrompt == [to |-> "nobody"]
NotApplied == [fn |-> "none"]

\* no dialogue is running
DialogueIdle ==
  /\ num_rounds = 0
  /\ participants = <<>>
  /\ round_num = 0
  /\ speaker = 0
  /\ num_questions = 0
  /\ question_count = 0
  /\ dlg_pc = "idle"
  /\ transcript = <<>>
  /\ current_context = <<>>
  /\ prompt = NoPrompt
  /\ outstanding = 0
  /\ fallbacks = {}
  /\ turn_failures = 0
  /\ dlg_error = ""

Init ==
  /\ DialogueIdle
  /\ applied = NotApplied
  /\ num_respondents \in 0..MaxRespondents
  /\ stage = "design_survey"
  /\ phase = "ready"
  /\ started = <<>>
  /\ returned = <<>>
  /\ files = [f \in FileNames |-> Absent]
  /\ reply = NoReply
  /\ survey_questions = Unset
  /\ respondents = <<>>
  /\ responses = <<>>
  /\ processed_data = Unset
  /\ analysis_results = Unset
  /\ visualization_files = <<>>
  /\ tasks = <<>>
  /\ results = <<>>
  /\ calls = <<>>
  /\ error = ""
  /\ write_failures = 0
  /\ num_participants = 0
  /\ attempt_number = 1
  /\ persona_pc = "idle"
  /\ persona_reply = NoReply
  /\ persona_outcome = NoReply
  /\ personas = <<>>
  /\ personas_file = FALSE
  /\ delays = <<>>

\* the call of a stage that awaits the backend
Call(s) ==
  /\ stage = s /\ phase = "ready"
  /\ phase' = "awaiting"
  /\ started' = Append(started, s)
  /\ reply' = NoReply

\* a stage end that removes the run's files when the stage raised
FinishRollingBack(s, out) ==
  /\ files' = IF out.raised THEN [f \in FileNames |-> Absent]
              ELSE IF out.wrote THEN [files EXCEPT ![ArtifactOf(s)] = File(out.value)]
              ELSE files
  /\ write_failures' = IF out.tried /\ ~out.wrote THEN write_failures + 1
                       ELSE write_failures
  /\ phase' = "ready"
  /\ IF out.raised
     THEN /\ stage' = "except"
          /\ error' = out.err
          /\ returned' = returned
     ELSE /\ stage' = NextStage(s)
          /\ error' = error
          /\ returned' = Append(returned, s)

\* the end of stage s with result out (a StageRaised or StageReturned):
\* the artifact is stored when it was written, and control moves to the
\* next statement or to the except clause
Finish(s, out) ==
  /\ files' = IF out.wrote THEN [files EXCEPT ![ArtifactOf(s)] = File(out.value)]
              ELSE files
  /\ write_failures' = IF out.tried /\ ~out.wrote THEN write_failures + 1
                       ELSE write_failures
  /\ phase' = "ready"
  /\ IF out.raised
     THEN /\ stage' = "except"
          /\ error' = out.err
          /\ returned' = returned
     ELSE /\ stage' = NextStage(s)
          /\ error' = error
          /\ returned' = Append(returned, s)

\* survey_simulation.py 1281, 364
DesignCall ==
  /\ Call("design_survey")
  /\ UNCHANGED <<personaVars, dialogueVars, applied>>
  /\ UNCHANGED <<num_respondents, returned, files, survey_questions, respondents,
                 responses, processed_data, analysis_results,
                 visualization_files, tasks, results, calls, error, stage,
                 write_failures>>

\* survey_simulation.py 365-438
DesignReturn ==
  /\ stage = "design_survey" /\ phase = "awaiting"
  /\ \E i \in 1..Len(DesignResults), writeOk \in WriteOutcomes :
       LET out == design_survey(Topic, DesignResults[i], writeOk)
       IN /\ reply' = DesignResults[i]
          /\ Finish("design_survey", out)
          /\ survey_questions' = IF out.raised THEN survey_questions ELSE out.value
  /\ UNCHANGED <<personaVars, dialogueVars, applied>>
  /\ UNCHANGED <<num_respondents, started, respondents, responses, processed_data,
                 analysis_results, visualization_files, tasks, results, calls>>

\* survey_simulation.py 1284, 448
GenerateCall ==
  /\ Call("generate_respondents")
  /\ UNCHANGED <<personaVars, dialogueVars, applied>>
  /\ UNCHANGED <<num_respondents, returned, files, survey_questions, respondents,
                 responses, processed_data, analysis_results,
                 visualization_files, tasks, results, calls, error, stage,
                 write_failures>>

\* survey_simulation.py 449-564
GenerateReturn ==
  /\ stage = "generate_respondents" /\ phase = "awaiting"
  /\ \E i \in 1..Len(GeneratorResults), writeOk \in WriteOutcomes :
       \E out \in generate_respondents(num_respondents, GeneratorResults[i], writeOk) :
          /\ reply' = GeneratorResults[i]
          /\ Finish("generate_respondents", out)
          /\ respondents' = IF out.raised THEN respondents ELSE out.value
  /\ UNCHANGED <<personaVars, dialogueVars, applied>>
  /\ UNCHANGED <<num_respondents, started, survey_questions, responses,
                 processed_data, analysis_results, visualization_files, tasks,
                 results, calls>>

\* survey_simulation.py 1287, 622-652: every task is created, then gather()
\* suspends the stage
CollectCall ==
  /\ Call("collect_survey_responses")
  /\ tasks' = CreateTasks(respondents)
  /\ results' = [i \in 1..Len(respondents) |-> Pending]
  /\ calls' = [i \in 1..Len(respondents) |->
                 IF AgentInitRaises(respondents[i]) THEN 0 ELSE 1]
  /\ UNCHANGED <<personaVars, dialogueVars, applied>>
  /\ UNCHANGED <<num_respondents, returned, files, survey_questions, respondents,
                 responses, processed_data, analysis_results,
                 visualization_files, error, stage, write_failures>>

\* one task finishes, in any order
TaskDone ==
  /\ stage = "collect_survey_responses" /\ phase = "awaiting"
  /\ \E i \in 1..Len(tasks) :
       /\ results[i] = Pending
       /\ \E r \in 1..Len(RespondentResults(survey_questions)) :
            results' = [results EXCEPT ![i] =
                          IF tasks[i].init_failed THEN InitFailedResult
                          ELSE RespondentResults(survey_questions)[r]]
  /\ UNCHANGED <<personaVars, dialogueVars, applied>>
  /\ UNCHANGED <<num_respondents, stage, phase, started, returned, files, reply,
                 survey_questions, respondents, responses, processed_data,
                 analysis_results, visualization_files, tasks, calls, error,
                 write_failures>>

\* survey_simulation.py 652-737: gather() returns once every task is done
CollectReturn ==
  /\ stage = "collect_survey_responses" /\ phase = "awaiting"
  /\ \A i \in 1..Len(tasks) : results[i] # Pending
  /\ \E writeOk \in WriteOutcomes :
       LET out == collect_results(survey_questions, respondents, tasks, results, writeOk)
       IN /\ Finish("collect_survey_responses", out)
          /\ responses' = IF out.raised THEN responses ELSE out.value
  /\ UNCHANGED <<personaVars, dialogueVars, applied>>
  /\ UNCHANGED <<num_respondents, started, reply, survey_questions, respondents,
                 processed_data, analysis_results, visualization_files, tasks,
                 results, calls>>

\* survey_simulation.py 1290, 740-867: the stage has no suspension point
ProcessStage ==
  /\ stage = "process_survey_data" /\ phase = "ready"
  /\ started' = Append(started, "process_survey_data")
  /\ \E writeOk \in WriteOutcomes :
       LET out == StageReturned(process_survey_data(survey_questions, responses),
                                writeOk, "returned")
       IN /\ Finish("process_survey_data", out)
          /\ processed_data' = out.value
  /\ reply' = NoReply /\ tasks' = <<>> /\ results' = <<>>
  /\ UNCHANGED <<personaVars, dialogueVars, applied>>
  /\ UNCHANGED <<num_respondents, survey_questions, respondents, responses,
                 analysis_results, visualization_files, calls>>

\* survey_simulation.py 1293, 958
AnalyzeCall ==
  /\ Call("analyze_survey_data")
  /\ UNCHANGED <<personaVars, dialogueVars, applied>>
  /\ UNCHANGED <<num_respondents, returned, files, survey_questions, respondents,
                 responses, processed_data, analysis_results,
                 visualization_files, tasks, results, calls, error, stage,
                 write_failures>>

\* survey_simulation.py 959-1020
AnalyzeReturn ==
  /\ stage = "analyze_survey_data" /\ phase = "awaiting"
  /\ \E i \in 1..Len(AnalystResults), writeOk \in WriteOutcomes :
       LET out == analyze_survey_data(processed_data, AnalystResults[i], writeOk)
       IN /\ reply' = AnalystResults[i]
          /\ Finish("analyze_survey_data", out)
          /\ analysis_results' = IF out.raised THEN analysis_results ELSE out.value
  /\ UNCHANGED <<personaVars, dialogueVars, applied>>
  /\ UNCHANGED <<num_respondents, started, survey_questions, respondents, responses,
                 processed_data, visualization_files, tasks, results, calls>>

\* survey_simulation.py 1298, 1023-1178
VisualizeStage ==
  /\ stage = "generate_visualizations" /\ phase = "ready"
  /\ started' = Append(started, "generate_visualizations")
  /\ \E writeOk \in WriteOutcomes :
       LET out == generate_visualizations(processed_data, analysis_results, writeOk)
       IN /\ Finish("generate_visualizations", out)
          /\ visualization_files' = IF out.raised THEN visualization_files
                                    ELSE out.value
  /\ reply' = NoReply
  /\ UNCHANGED <<personaVars, dialogueVars, applied>>
  /\ UNCHANGED <<num_respondents, survey_questions, respondents, responses,
                 processed_data, analysis_results, tasks, results, calls>>

\* survey_simulation.py 1303, 1180-1256: a failed save is only logged
ReportStage ==
  /\ stage = "generate_final_report" /\ phase = "ready"
  /\ started' = Append(started, "generate_final_report")
  /\ \E writeOk \in WriteOutcomes :
       Finish("generate_final_report",
              StageReturned(FinalReport(Topic, Len(respondents), analysis_results,
                                        visualization_files),
                            writeOk, "returned"))
  /\ UNCHANGED <<personaVars, dialogueVars, applied>>
  /\ UNCHANGED <<num_respondents, reply, survey_questions, respondents, responses,
                 processed_data, analysis_results, visualization_files, tasks,
                 results, calls>>

\* survey_simulation.py 1310-1320: the parameters of a completed run
CompletedStatus(n) ==
  [status |-> "completed", num_respondents |-> n, error |-> ""]

\* a failure status that leaves the message out
FailedStatusWithoutMessage(n, e) ==
  [status |-> "failed", num_respondents |-> n, error |-> ""]

\* survey_simulation.py 1332-1336: the parameters of a failed run
FailedStatus(n, e) ==
  [status |-> "failed", num_respondents |-> n, error |-> e]

\* survey_simulation.py 1308-1324: the completed status is written; a write
\* that fails raises into the except clause
SaveParameters ==
  /\ stage = "save_parameters"
  /\ \E writeOk \in WriteOutcomes :
       /\ files' = IF writeOk
                   THEN [files EXCEPT !["parameters.json"] =
                           File(CompletedStatus(Len(respondents)))]
                   ELSE files
       /\ write_failures' = IF writeOk THEN write_failures ELSE write_failures + 1
       /\ stage' = IF writeOk THEN "done" ELSE "except"
       /\ error' = IF writeOk THEN error ELSE "OSError"
  /\ UNCHANGED <<personaVars, dialogueVars, applied>>
  /\ UNCHANGED <<num_respondents, phase, started, returned, reply, survey_questions,
                 respondents, responses, processed_data, analysis_results,
                 visualization_files, tasks, results, calls>>

\* survey_simulation.py 1326-1341: the failed status is written, a write that
\* fails is only logged, and the exception is raised again
HandleFailure ==
  /\ stage = "except"
  /\ \E writeOk \in WriteOutcomes :
       /\ files' = IF writeOk
                   THEN [files EXCEPT !["parameters.json"] =
                           File(FailedStatus(num_respondents, error))]
                   ELSE files
       /\ write_failures' = IF writeOk THEN write_failures ELSE write_failures + 1
  /\ stage' = "failed"
  /\ UNCHANGED <<personaVars, dialogueVars, applied>>
  /\ UNCHANGED <<num_respondents, phase, started, returned, reply, survey_questions,
                 respondents, responses, processed_data, analysis_results,
                 visualization_files, tasks, results, calls, error>>

Next ==
  \/ DesignCall \/ DesignReturn
  \/ GenerateCall \/ GenerateReturn
  \/ CollectCall \/ TaskDone \/ CollectReturn
  \/ ProcessStage
  \/ AnalyzeCall \/ AnalyzeReturn
  \/ VisualizeStage
  \/ ReportStage
  \/ SaveParameters
  \/ HandleFailure

Spec == Init /\ [][Next]_vars

(***************************************************************************)
(* generate_persona_profiles under its retry decorator: one call.          *)
(***************************************************************************)
PersonaInit ==
  /\ DialogueIdle
  /\ applied = NotApplied
  /\ num_participants \in 0..MaxParticipants
  /\ attempt_number = 1
  /\ persona_pc = "start"
  /\ persona_reply = NoReply
  /\ persona_outcome = NoReply
  /\ personas = <<>>
  /\ personas_file = FALSE
  /\ delays = <<>>
  /\ num_respondents = 0
  /\ stage = "idle"
  /\ phase = "ready"
  /\ started = <<>>
  /\ returned = <<>>
  /\ files = [f \in FileNames |-> Absent]
  /\ reply = NoReply
  /\ survey_questions = Unset
  /\ respondents = <<>>
  /\ responses = <<>>
  /\ processed_data = Unset
  /\ analysis_results = Unset
  /\ visualization_files = <<>>
  /\ tasks = <<>>
  /\ results = <<>>
  /\ calls = <<>>
  /\ error = ""
  /\ write_failures = 0

\* focus_group_simulation.py 345-392: an attempt starts and awaits Runner.run
PersonaCall ==
  /\ persona_pc = "start"
  /\ persona_pc' = "awaiting"
  /\ persona_reply' = NoReply
  /\ persona_outcome' = NoReply
  /\ UNCHANGED <<num_participants, attempt_number, personas, personas_file,
                 delays>>
  /\ UNCHANGED <<surveyVars, dialogueVars, applied>>

\* focus_group_simulation.py 392-463: the backend result arrives and the
\* body runs to its end
PersonaReturn ==
  /\ persona_pc = "awaiting"
  /\ \E i \in 1..Len(PersonaResults), writeOk \in BOOLEAN :
       LET out == generate_persona_profiles(num_participants, PersonaResults[i],
                                            writeOk)
       IN /\ persona_reply' = PersonaResults[i]
          /\ persona_outcome' = out
          /\ personas_file' = (personas_file \/ out.wrote)
  /\ persona_pc' = "outcome"
  /\ UNCHANGED <<num_participants, attempt_number, personas, delays>>
  /\ UNCHANGED <<surveyVars, dialogueVars, applied>>

\* focus_group_simulation.py 335-339: the retry decorator looks at the
\* outcome of the attempt: a retried exception starts another attempt, after
\* the wait, until stop_after_attempt attempts were made, any other exception
\* is raised, a value is returned
PersonaRetry ==
  /\ persona_pc = "outcome"
  /\ IF persona_outcome.raised /\ persona_outcome.err \in retry_if_exception_type
     THEN IF attempt_number < stop_after_attempt
          THEN /\ persona_pc' = "start"
               /\ delays' = Append(delays, wait_exponential(attempt_number))
               /\ attempt_number' = attempt_number + 1
               /\ personas' = personas
          ELSE /\ persona_pc' = "retry_error"
               /\ UNCHANGED <<attempt_number, personas, delays>>
     ELSE IF persona_outcome.raised
     THEN /\ persona_pc' = "raised"
          /\ UNCHANGED <<attempt_number, personas, delays>>
     ELSE /\ persona_pc' = "returned"
          /\ personas' = persona_outcome.value
          /\ attempt_number' = attempt_number
          /\ delays' = delays
  /\ UNCHANGED <<num_participants, persona_reply, persona_outcome, personas_file>>
  /\ UNCHANGED <<surveyVars, dialogueVars, applied>>

PersonaNext == PersonaCall \/ PersonaReturn \/ PersonaRetry

PersonaSpec == PersonaInit /\ [][PersonaNext]_vars

(***************************************************************************)
(* The retry policy of lines 335-339 around an operation whose attempts    *)
(* may end in any way.                                                     *)
(***************************************************************************)
\* the exceptions an attempt is left with: the two the policy retries and
\* those the try block of generate_persona_profiles can meet besides
AttemptErrors == retry_if_exception_type \cup {"transient", "TypeError", "OSError"}

PersonasRaised(e) ==
  [raised |-> TRUE, err |-> e, value |-> <<>>, path |-> "raised", wrote |-> FALSE]

\* an attempt ends: the operation returns a value or raises
AttemptEnds ==
  /\ persona_pc = "awaiting"
  /\ \/ persona_outcome' = PersonasReturned(GenericPersonas(num_participants),
                                            "fallback", FALSE)
     \/ \E e \in AttemptErrors : persona_outcome' = PersonasRaised(e)
  /\ persona_pc' = "outcome"
  /\ UNCHANGED <<num_participants, attempt_number, persona_reply, personas,
                 personas_file, delays>>
  /\ UNCHANGED <<surveyVars, dialogueVars, applied>>

RetryNext == PersonaCall \/ AttemptEnds \/ PersonaRetry

RetrySpec == PersonaInit /\ [][RetryNext]_vars

(***************************************************************************)
(* run_simulation: the discussion loop of the focus group.                 *)
(***************************************************************************)
\* no survey is running
SurveyIdle ==
  /\ num_respondents = 0
  /\ stage = "idle"
  /\ phase = "ready"
  /\ started = <<>>
  /\ returned = <<>>
  /\ files = [f \in FileNames |-> Absent]
  /\ reply = NoReply
  /\ survey_questions = Unset
  /\ respondents = <<>>
  /\ responses = <<>>
  /\ processed_data = Unset
  /\ analysis_results = Unset
  /\ visualization_files = <<>>
  /\ tasks = <<>>
  /\ results = <<>>
  /\ calls = <<>>
  /\ error = ""
  /\ write_failures = 0

\* no persona generation is running
PersonaIdle ==
  /\ num_participants = 0
  /\ attempt_number = 1
  /\ persona_pc = "idle"
  /\ persona_reply = NoReply
  /\ persona_outcome = NoReply
  /\ personas = <<>>
  /\ personas_file = FALSE
  /\ delays = <<>>

\* focus_group_simulation.py 491-500, 1551-1563: run_simulation is entered
\* with at least one participant
FocusInit ==
  /\ SurveyIdle /\ PersonaIdle
  /\ applied = NotApplied
  /\ num_rounds \in 0..MaxRounds
  /\ \E n \in 1..MaxParticipants : participants = ParticipantAgents(Personas(n))
  /\ round_num = 1
  /\ speaker = 0
  /\ num_questions = 0
  /\ question_count = 0
  /\ dlg_pc = IF num_rounds >= 1 THEN "moderator" ELSE "conclusion"
  /\ transcript = <<>>
  /\ current_context = InitialContext(participants)
  /\ prompt = NoPrompt
  /\ outstanding = 0
  /\ fallbacks = {}
  /\ turn_failures = 0
  /\ dlg_error = ""

\* the results the outstanding call may come back with
TurnOutcomes ==
  {r \in TurnResults(Len(transcript) + 1) :
     r = Result(Said(Len(transcript) + 1)) \/ turn_failures < MaxTurnFailures}

\* `await Runner.run(agent, prompt)`: the prompt holds the context as it is
\* now, and the coroutine is suspended until the call comes back
AskWithoutAwait(pc, agent) ==
  /\ dlg_pc = pc
  /\ prompt' = [to |-> agent, context |-> current_context]
  /\ outstanding' = outstanding + 1
  /\ UNCHANGED <<num_rounds, participants, round_num, speaker, num_questions,
                 question_count, dlg_pc, transcript, current_context, fallbacks,
                 turn_failures, dlg_error>>
  /\ UNCHANGED <<surveyVars, personaVars, applied>>

Ask(pc, agent) ==
  /\ dlg_pc = pc /\ prompt = NoPrompt
  /\ prompt' = [to |-> agent, context |-> current_context]
  /\ outstanding' = outstanding + 1
  /\ UNCHANGED <<num_rounds, participants, round_num, speaker, num_questions,
                 question_count, dlg_pc, transcript, current_context, fallbacks,
                 turn_failures, dlg_error>>
  /\ UNCHANGED <<surveyVars, personaVars, applied>>

\* the call comes back and the turn is added to the transcript and, when
\* inContext, to the context
TakeTurn(speaker_id, speaker_name, label, fallback_msg, inContext) ==
  /\ prompt # NoPrompt
  /\ \E result \in TurnOutcomes :
       LET t == TurnEntry(speaker_id, speaker_name, result, fallback_msg)
       IN /\ transcript' = Append(transcript, t.entry)
          /\ current_context' =
               IF inContext
               THEN Append(current_context, ContextLine(label, t.entry.content.v))
               ELSE current_context
          /\ fallbacks' = IF t.fallback THEN fallbacks \cup {Len(transcript) + 1}
                          ELSE fallbacks
          /\ turn_failures' = IF t.fallback THEN turn_failures + 1
                              ELSE turn_failures
  /\ prompt' = NoPrompt
  /\ outstanding' = outstanding - 1
  /\ UNCHANGED <<num_rounds, participants, num_questions, question_count,
                 dlg_error>>
  /\ UNCHANGED <<surveyVars, personaVars, applied>>

\* a loop that runs one round more than asked
AfterRoundOneMore(r) == IF r <= num_rounds THEN "moderator" ELSE "conclusion"

\* focus_group_simulation.py 500, 615: the round that follows round r, or the
\* conclusion
AfterRound(r) == IF r + 1 <= num_rounds THEN "moderator" ELSE "conclusion"

\* focus_group_simulation.py 508-531
ModeratorCall == Ask("moderator", "Moderator")

\* focus_group_simulation.py 531-559
ModeratorReturn ==
  /\ dlg_pc = "moderator"
  /\ TakeTurn("Moderator", "Moderator", "Moderator", ModeratorFallback, TRUE)
  /\ IF Len(participants) > 0
     THEN dlg_pc' = "participant" /\ speaker' = 1 /\ round_num' = round_num
     ELSE /\ dlg_pc' = AfterRound(round_num)
          /\ speaker' = speaker /\ round_num' = round_num + 1

\* focus_group_simulation.py 559-586
ParticipantCall ==
  /\ dlg_pc = "participant"
  /\ Ask("participant", participants[speaker].persona_id)

\* focus_group_simulation.py 586-613
ParticipantReturn ==
  /\ dlg_pc = "participant"
  /\ LET participant == participants[speaker]
         profile == participant.persona_profile
     IN TakeTurn(participant.persona_id, profile.v.name.v,
                 participant.persona_id \o " (" \o profile.v.name.v \o ")",
                 ParticipantFallback(profile), TRUE)
  /\ IF speaker < Len(participants)
     THEN dlg_pc' = "participant" /\ speaker' = speaker + 1
          /\ round_num' = round_num
     ELSE /\ dlg_pc' = AfterRound(round_num)
          /\ speaker' = 0 /\ round_num' = round_num + 1

\* focus_group_simulation.py 615-627
ConclusionCall == Ask("conclusion", "Moderator")

\* focus_group_simulation.py 622-654
ConclusionReturn ==
  /\ dlg_pc = "conclusion"
  /\ TakeTurn("Moderator", "Moderator", "Moderator", ConclusionFallback, FALSE)
  /\ dlg_pc' = "returned"
  /\ UNCHANGED <<speaker, round_num>>

FocusNext ==
  \/ ModeratorCall \/ ModeratorReturn
  \/ ParticipantCall \/ ParticipantReturn
  \/ ConclusionCall \/ ConclusionReturn

FocusSpec == FocusInit /\ [][FocusNext]_vars

(***************************************************************************)
(* run_interview: the in-depth interview.                                  *)
(***************************************************************************)
\* idi_simulation.py 29, 149: the names of the two agents
interviewer_name == "IDI Interviewer"
respondent_name == "Generic Person"

\* idi_simulation.py 382-396
InterviewInit ==
  /\ SurveyIdle /\ PersonaIdle
  /\ applied = NotApplied
  /\ num_questions \in -1..MaxQuestions   \* --num_questions takes any int
  /\ question_count = 0
  /\ num_rounds = 0
  /\ participants = <<>>
  /\ round_num = 0
  /\ speaker = 0
  /\ dlg_pc = "intro"
  /\ transcript = <<>>
  /\ current_context = <<[line |-> "topic", text |-> "banking"]>>
  /\ prompt = NoPrompt
  /\ outstanding = 0
  /\ fallbacks = {}
  /\ turn_failures = 0
  /\ dlg_error = ""

\* who speaks at a position of run_interview
SpeakerAt(pc) ==
  IF pc \in {"intro", "question", "closing"} THEN interviewer_name
  ELSE respondent_name

\* a loop test that lets one question more through
AfterQuestionOneMore(count) ==
  IF count <= num_questions THEN "question" ELSE "closing"

\* idi_simulation.py 419, 452: the loop test after question_count questions
AfterQuestion(count) == IF count < num_questions THEN "question" ELSE "closing"

\* idi_simulation.py 393-398, 405-410, 424-429, 437-442, 455-460, 467-472
InterviewCall ==
  /\ dlg_pc \in {"intro", "intro_reply", "question", "answer", "closing", "final"}
  /\ Ask(dlg_pc, SpeakerAt(dlg_pc))

\* idi_simulation.py 398-402, 410-416, 429-433, 442-449, 460-464, 472-478: the
\* call comes back.  No Runner.run of run_interview is inside a try block: an
\* exception leaves the function; a result is appended with its final_output
\* as it is, and added to the context except after the final call.
InterviewReturn ==
  /\ dlg_pc \in {"intro", "intro_reply", "question", "answer", "closing", "final"}
  /\ prompt # NoPrompt
  /\ prompt' = NoPrompt
  /\ outstanding' = outstanding - 1
  /\ \E result \in TurnOutcomes :
       /\ turn_failures' = IF result = Result(Said(Len(transcript) + 1))
                           THEN turn_failures ELSE turn_failures + 1
       /\ IF result.k = "raise"
          THEN /\ dlg_pc' = "raised"
               /\ dlg_error' = result.kind
               /\ UNCHANGED <<transcript, current_context, question_count>>
          ELSE /\ transcript' = Append(transcript,
                                       <<SpeakerAt(dlg_pc), result.final_output>>)
               /\ current_context' =
                    IF dlg_pc = "final" THEN current_context
                    ELSE Append(current_context,
                                ContextLine(SpeakerAt(dlg_pc),
                                            Format(result.final_output)))
               /\ question_count' = IF dlg_pc \in {"intro_reply", "answer"}
                                    THEN question_count + 1 ELSE question_count
               /\ dlg_pc' = CASE dlg_pc = "intro" -> "intro_reply"
                              [] dlg_pc = "intro_reply" -> AfterQuestion(question_count + 1)
                              [] dlg_pc = "question" -> "answer"
                              [] dlg_pc = "answer" -> AfterQuestion(question_count + 1)
                              [] dlg_pc = "closing" -> "final"
                              [] dlg_pc = "final" -> "returned"
               /\ dlg_error' = dlg_error
  /\ UNCHANGED <<num_rounds, participants, round_num, speaker, num_questions,
                 fallbacks>>
  /\ UNCHANGED <<surveyVars, personaVars, applied>>

InterviewNext == InterviewCall \/ InterviewReturn

InterviewSpec == InterviewInit /\ [][InterviewNext]_vars

\* the event loop resumes the coroutine whenever a step of it is possible,
\* and every generation call comes back, with a result or an exception
InterviewFairSpec == InterviewSpec /\ WF_vars(InterviewNext)

(***************************************************************************)
(* The two sequential dialogues, run_simulation and run_interview.         *)
(***************************************************************************)
DialogueInit == FocusInit \/ InterviewInit

DialogueNext == FocusNext \/ InterviewNext

DialogueSpec == DialogueInit /\ [][DialogueNext]_vars

(***************************************************************************)
(* The two regimes of generation calls side by side: a survey run up to    *)
(* the return of collect_survey_responses (the fan-out), or one of the     *)
(* sequential dialogues.                                                   *)
(***************************************************************************)
RegimeInit == Init \/ DialogueInit

CollectionNext ==
  \/ DesignCall \/ DesignReturn
  \/ GenerateCall \/ GenerateReturn
  \/ CollectCall \/ TaskDone \/ CollectReturn

RegimeNext == CollectionNext \/ DialogueNext

RegimeSpec == RegimeInit /\ [][RegimeNext]_vars

(***************************************************************************)
(* A survey run up to the return of process_survey_data.                   *)
(***************************************************************************)
ProcessingNext == CollectionNext \/ ProcessStage

ProcessingSpec == Init /\ [][ProcessingNext]_vars

(***************************************************************************)
(* The extraction functions applied on their own: one call with inputs     *)
(* drawn from the documents above.                                         *)
(***************************************************************************)
FunctionInit ==
  /\ SurveyIdle /\ PersonaIdle /\ DialogueIdle
  /\ applied = NotApplied

\* survey_simulation.py 354-438
ApplyDesignSurvey ==
  /\ applied = NotApplied
  /\ \E i \in 1..Len(DesignResults), writeOk \in BOOLEAN :
       applied' = [fn |-> "design_survey", result |-> DesignResults[i],
                   out |-> design_survey(Topic, DesignResults[i], writeOk)]
  /\ UNCHANGED <<surveyVars, personaVars, dialogueVars>>

\* survey_simulation.py 441-564
ApplyGenerateRespondents ==
  /\ applied = NotApplied
  /\ \E n \in 0..MaxRequested, i \in 1..Len(GeneratorResults),
        writeOk \in BOOLEAN :
       \E out \in generate_respondents(n, GeneratorResults[i], writeOk) :
          applied' = [fn |-> "generate_respondents", n |-> n,
                      result |-> GeneratorResults[i], out |-> out]
  /\ UNCHANGED <<surveyVars, personaVars, dialogueVars>>

\* idi_simulation.py 229-376
ApplyGenerateRespondentPersona ==
  /\ applied = NotApplied
  /\ \E i \in 1..Len(RespondentPersonaResults), writeOk \in BOOLEAN,
        fallbackWriteOk \in BOOLEAN :
       applied' = [fn |-> "generate_respondent_persona",
                   result |-> RespondentPersonaResults[i],
                   out |-> generate_respondent_persona(
                              RespondentPersonaResults[i], writeOk, fallbackWriteOk)]
  /\ UNCHANGED <<surveyVars, personaVars, dialogueVars>>

\* focus_group_simulation.py 340-463: the body never raises, so the call
\* returns what its first attempt returns
ApplyGeneratePersonaProfiles ==
  /\ applied = NotApplied
  /\ \E n \in 0..MaxParticipants, i \in 1..Len(PersonaResults),
        writeOk \in BOOLEAN :
       applied' = [fn |-> "generate_persona_profiles", n |-> n,
                   result |-> PersonaResults[i],
                   out |-> generate_persona_profiles(n, PersonaResults[i], writeOk)]
  /\ UNCHANGED <<surveyVars, personaVars, dialogueVars>>

\* focus_group_simulation.py 656-905
ApplyAnalyzeTranscript ==
  /\ applied = NotApplied
  /\ \E t \in 1..Len(AnalysisTranscripts), i \in 1..Len(TranscriptAnalystResults),
        sentiment_polarity \in Polarities :
       LET entries == AnalysisTranscripts[t]
           participant_data == Personas(Cardinality(Speakers(entries)) - 1)
       IN applied' = [fn |-> "analyze_transcript", entries |-> entries,
                      result |-> TranscriptAnalystResults[i],
                      out |-> analyze_transcript(entries, participant_data,
                                                 TranscriptAnalystResults[i],
                                                 sentiment_polarity)]
  /\ UNCHANGED <<surveyVars, personaVars, dialogueVars>>

\* focus_group_simulation.py 171-190: from_json_str on each text the analyst
\* may give
ApplyFromJsonStr ==
  /\ applied = NotApplied
  /\ \E i \in 1..Len(TranscriptAnalystResults) :
       LET result == TranscriptAnalystResults[i]
       IN /\ result.k = "ok" /\ result.final_output.w # "none"
          /\ applied' = [fn |-> "from_json_str",
                         json_str |-> result.final_output,
                         out |-> from_json_str(result.final_output)]
  /\ UNCHANGED <<surveyVars, personaVars, dialogueVars>>

FunctionNext ==
  \/ ApplyDesignSurvey
  \/ ApplyGenerateRespondents
  \/ ApplyGenerateRespondentPersona
  \/ ApplyGeneratePersonaProfiles
  \/ ApplyAnalyzeTranscript
  \/ ApplyFromJsonStr

FunctionSpec == FunctionInit /\ [][FunctionNext]_vars

(***************************************************************************)
(* Properties of a survey run.                                             *)
(***************************************************************************)
\* the order the stages of a run are meant to have
StageOrder ==
  <<"design_survey", "generate_respondents", "collect_survey_responses",
    "process_survey_data", "analyze_survey_data", "generate_visualizations",
    "generate_final_report">>

IsPrefix(s, t) == Len(s) <= Len(t) /\ \A i \in 1..Len(s) : s[i] = t[i]

\* the stages whose artifact is one JSON file
DataStages ==
  {"design_survey", "generate_respondents", "collect_survey_responses",
   "process_survey_data", "analyze_survey_data"}

\* collect_survey_responses has returned and nothing has run since
CollectReturned == stage = "process_survey_data"

\* collect_survey_responses has raised
CollectRaised ==
  /\ stage \in {"except", "failed"}
  /\ started # <<>> /\ started[Len(started)] = "collect_survey_responses"
  /\ Len(returned) < Len(started)

\* the question ids the code uses to mark a response set that is not genuine
MarkerIds ==
  {Str("AGENT_ERROR"), Str("JSON_ERROR"), Str("FORMAT_WARNING_NOT_LIST"),
   Str("MISSING_REQUIRED")}
Flagged(response_set) ==
  \E k \in 1..Len(response_set.v.responses.v) :
     response_set.v.responses.v[k].v.question_id \in MarkerIds

\* the backend call returned an answer to every question, as a JSON list
Genuine(result) ==
  \/ result = Result(Bare(JsonBody(FullAnswers(survey_questions))))
  \/ result = Result(Fenced(JsonBody(FullAnswers(survey_questions))))

\* C1: the stages of a run start in the order design_survey,
\* generate_respondents, collect_survey_responses, process_survey_data,
\* analyze_survey_data, generate_visualizations, generate_final_report; a
\* stage starts only when every stage before it has returned, none is
\* skipped and none runs twice.
C1_StagesInOrder ==
  /\ IsPrefix(started, StageOrder)
  /\ IsPrefix(returned, started)
  /\ Len(started) <= Len(returned) + 1

\* a run that went through every stage
C1_Witness ==
  stage = "done" /\ started = StageOrder /\ returned = StageOrder

\* C2: whenever a stage has started, the artifact of every stage that
\* completed before it is in storage.  (Files are never removed, so an
\* artifact that is absent now was absent when the later stage started.)
C2_ArtifactsPersisted ==
  \A j \in 1..Len(returned) :
     (j < Len(started) /\ returned[j] \in DataStages)
        => files[ArtifactOf(returned[j])] # Absent

C4_ExactlyKFlagged ==
  CollectReturned =>
     /\ Len(responses) = Len(respondents)
     /\ Cardinality({i \in 1..Len(responses) : Flagged(responses[i])})
          = Cardinality({i \in 1..Len(results) : ~Genuine(results[i])})
     /\ \A i \in 1..Len(responses) :
          ~Flagged(responses[i])
             => responses[i].v.responses = FullAnswers(survey_questions)

\* C5: the i-th response set carries the profile of the i-th respondent and
\* the answers of the call made for that respondent.
C5_PositionalCorrespondence ==
  CollectReturned =>
     \A i \in 1..Len(respondents) :
        /\ \A k \in DOMAIN respondents[i].v :
              responses[i].v[k] = respondents[i].v[k]
        /\ responses[i].v.responses =
             Lst(Responses(survey_questions, results[i]).val)

\* C6: collect_survey_responses does not raise whatever a respondent's call
\* produced; a respondent whose call did not deliver gets a flagged record,
\* and every record depends on that respondent's own outcome only.
C6_CollectNeverRaises ==
  /\ ~CollectRaised
  /\ CollectReturned =>
        \A i \in 1..Len(results) :
           /\ ~Genuine(results[i]) => Flagged(responses[i])
           /\ responses[i].v.responses =
                Lst(Responses(survey_questions, results[i]).val)

\* C7: a respondent whose call failed transiently has been called again
\* before the error record is used for that respondent.
C7_TransientFailureRetried ==
  CollectReturned =>
     \A i \in 1..Len(results) :
        results[i] = Raise("transient") => calls[i] >= 2

\* C8: at each of the four extraction sites, a fenced block with
\* schema-valid content is accepted and what the stage stores equals the
\* data in the block.
C8_FencedBlockAccepted ==
  /\ (stage = "generate_respondents" /\ phase = "ready"
        /\ reply = Result(Fenced(JsonBody(GoodSurvey))))
       => survey_questions = GoodSurvey
  /\ (stage = "collect_survey_responses" /\ phase = "ready"
        /\ reply = Result(Fenced(JsonBody(Lst(<<ProfileA, ProfileB>>))))
        /\ num_respondents = 2)
       => respondents = <<ProfileA, ProfileB>>
  /\ CollectReturned =>
       \A i \in 1..Len(results) :
          results[i] = Result(Fenced(JsonBody(FullAnswers(survey_questions))))
             => responses[i].v.responses = FullAnswers(survey_questions)
  /\ (stage = "generate_visualizations" /\ phase = "ready"
        /\ reply = Result(Fenced(JsonBody(GoodAnalysis))))
       => analysis_results.visualization_data = GoodAnalysis

\* C9: when the respondent list or a respondent's answers are extracted,
\* what the stage returns is the parsed list itself, or the list was
\* rejected as a whole: nothing is dropped, added or replaced.
C9_ParsedDataUnmodified ==
  /\ (stage = "collect_survey_responses" /\ phase = "ready" /\ reply.k = "ok")
       => LET ex == RespondentsExtract(reply.final_output)
          IN (ex.ok /\ IsList(ex.val))
                => \/ respondents = ex.val.v
                   \/ respondents \in GenericRespondents(num_respondents)
  /\ CollectReturned =>
       \A i \in 1..Len(results) :
          (results[i].k = "ok" /\ results[i].final_output.w # "none")
             => LET ex == ResponseExtract(results[i].final_output)
                IN (ex.ok /\ IsList(ex.val))
                      => responses[i].v.responses = ex.val

\* C14: the fallback paths are deterministic: when generate_respondents
\* returned generic profiles, every execution of that fallback for the same
\* num_respondents returns the same profiles, field for field.
C14_FallbackDeterministic ==
  ((\E k \in 1..Len(returned) : returned[k] = "generate_respondents")
     /\ respondents \in GenericRespondents(num_respondents))
    => \A other \in GenericRespondents(num_respondents) : other = respondents

(***************************************************************************)
(* Properties of generate_persona_profiles.                                *)
(***************************************************************************)
\* the backend text holds no block that parses
NoValidBlock(result) ==
  /\ result.k = "ok" /\ result.final_output.w # "none"
  /\ ~JsonLoads(result.final_output.body).ok

\* C10: when the backend text holds no valid structured block, the fallback
\* personas are returned only after 3 attempts, and each of them is flagged
\* degraded and has the required fields name, age, gender and occupation.
C10_FallbackAfterMaxAttempts ==
  (persona_pc = "returned" /\ NoValidBlock(persona_reply)) =>
     /\ attempt_number = 3
     /\ \A i \in 1..Len(personas) :
          /\ HasKey(personas[i], "degraded")
          /\ {"name", "age", "gender", "occupation"} \subseteq DOMAIN personas[i].v

\* malformed text was answered with the fallback personas
C10_Witness ==
  /\ persona_pc = "returned" /\ NoValidBlock(persona_reply)
  /\ num_participants > 0
  /\ personas = GenericPersonas(num_participants)

\* the exception the attempt that last ran to its end was left with
AttemptError ==
  persona_error(num_participants, persona_reply, persona_outcome.wrote)

\* C11: generate_persona_profiles is attempted again after an attempt that
\* ended in a JSON parse error or a schema validation error (while attempts
\* remain), and never after an attempt that ended in any other way.
C11_RetriedOnParseOrValidationError ==
  /\ (persona_pc \in {"returned", "raised"} /\ attempt_number < stop_after_attempt)
        => AttemptError \notin retry_if_exception_type
  /\ (persona_pc = "start" /\ attempt_number > 1)
        => AttemptError \in retry_if_exception_type

\* C12: under the retry policy of generate_persona_profiles the waits made
\* so far are non-decreasing, each of them lies between the minimum 2 and the
\* maximum 10, and at most 3 attempts are made.
C12_RetryPolicyBounds ==
  /\ \A i \in 1..Len(delays) : wait_min <= delays[i] /\ delays[i] <= wait_max
  /\ \A i \in 1..Len(delays) : \A j \in i..Len(delays) : delays[i] <= delays[j]
  /\ attempt_number <= 3
  /\ Len(delays) = attempt_number - 1

\* three attempts ended in a retried exception and the policy gave up
C12_Witness ==
  /\ persona_pc = "retry_error"
  /\ attempt_number = 3
  /\ delays = <<2, 2>>

(***************************************************************************)
(* Properties of the dialogues.                                            *)
(***************************************************************************)
\* the entry carries a degraded marker
MarkedDegraded(entry) == "degraded" \in DOMAIN entry /\ entry.degraded = TRUE

\* C13: every turn of the focus group transcript that an except clause
\* produced carries an explicit degraded marker, and no turn built from
\* backend output carries it.
C13_FallbackTurnsMarked ==
  \A i \in 1..Len(transcript) : MarkedDegraded(transcript[i]) <=> i \in fallbacks

\* the dialogue is the focus group's (run_interview has no participants list)
IsFocusGroup == participants # <<>>

\* the contents of the turns, as text: entry.content of a DialogueEntry, the
\* second component of a tuple of run_interview
Contents(turns) ==
  [i \in 1..Len(turns) |->
     IF IsFocusGroup THEN turns[i].content.v ELSE Format(turns[i][2])]

\* the texts of the turn lines of a context
RECURSIVE TurnTexts(_)
TurnTexts(context) ==
  IF context = <<>> THEN <<>>
  ELSE (IF Head(context).line = "turn" THEN <<Head(context).text>> ELSE <<>>)
       \o TurnTexts(Tail(context))

\* s occurs in t in order, other elements allowed between
RECURSIVE IsSubsequence(_, _)
IsSubsequence(s, t) ==
  IF s = <<>> THEN TRUE
  ELSE IF t = <<>> THEN FALSE
  ELSE IF Head(s) = Head(t) THEN IsSubsequence(Tail(s), Tail(t))
  ELSE IsSubsequence(s, Tail(t))

\* C18: in run_simulation and run_interview the transcript only grows, one
\* turn at its end per generation call, and the prompt of every generation
\* call holds, in order, the content of every turn appended before the call.
C18_AppendOnlyAndPromptHoldsTurns ==
  [][ /\ IsPrefix(transcript, transcript')
      /\ Len(transcript') <= Len(transcript) + 1
      /\ prompt' # NoPrompt =>
           IsSubsequence(Contents(transcript'), TurnTexts(prompt'.context)) ]_vars

\* a call is outstanding whose prompt follows a generated turn and a turn an
\* except clause filled
C18_Witness ==
  /\ prompt # NoPrompt
  /\ Len(transcript) >= 3
  /\ fallbacks # {} /\ \E i \in 1..Len(transcript) : i \notin fallbacks
  /\ Contents(transcript) = TurnTexts(prompt.context)

(***************************************************************************)
(* Properties of the extraction functions.                                 *)
(***************************************************************************)
\* the function returned the object of its fallback path
FellBack(fn) ==
  /\ applied.fn = fn
  /\ ~applied.out.raised
  /\ applied.out.path = "fallback"

\* C15: the fallback survey of design_survey, each fallback profile of
\* generate_respondents and the generic persona of
\* generate_respondent_persona pass every validation check that the same
\* function applies to parsed backend output.
C15_FallbackPassesValidation ==
  /\ FellBack("design_survey") => DesignValid(applied.out.value)
  /\ FellBack("generate_respondents") =>
       \A i \in 1..Len(applied.out.value) : ProfileValid(applied.out.value[i])
  /\ FellBack("generate_respondent_persona") => PersonaValid(applied.out.value)

\* the interview's persona generator answered with a persona that fails the
\* validation and the generic persona was returned
C15_Witness ==
  /\ FellBack("generate_respondent_persona")
  /\ applied.result.k = "ok" /\ applied.result.final_output.w # "none"
  /\ PersonaExtract(applied.result.final_output).ok
  /\ ~PersonaValid(PersonaExtract(applied.result.final_output).val)
  /\ applied.out.value = generic_persona

\* C16: for every speaker of the transcript, the word count and the
\* response count in the analysis data that analyze_transcript returns are
\* the values recomputed from the transcript, whatever the analyst's block
\* reported.
C16_MetricsRecomputed ==
  applied.fn = "analyze_transcript" =>
    LET metrics == applied.out.analysis_data.engagement_metrics
    IN \A speaker_id \in DOMAIN metrics :
          /\ speaker_id \in Speakers(applied.entries)
          /\ metrics[speaker_id].word_count
               = word_counts(applied.entries)[speaker_id]
          /\ metrics[speaker_id].response_count
               = response_counts(applied.entries)[speaker_id]

\* the block the analyst reported, when its text holds one that has the
\* fields of AnalysisData
ReportedBlock(result) ==
  IF result.k = "ok" /\ result.final_output.w = "fence"
       /\ JsonLoads(result.final_output.body).ok
       /\ IsDict(JsonLoads(result.final_output.body).val)
       /\ AnalysisFieldsValid(JsonLoads(result.final_output.body).val)
  THEN Parsed(JsonLoads(result.final_output.body).val)
  ELSE Failed("no block")

\* final is reported brought to a sum of 1: it sums to 1 within 0.01 and the
\* three numbers keep their ratios (it is reported itself when that already
\* sums to 1)
Normalised(final, reported) ==
  LET total == reported.positive.v + reported.neutral.v + reported.negative.v
      sum == final.positive + final.neutral + final.negative
  IN /\ 99 <= sum /\ sum <= 101
     /\ final.positive * total = reported.positive.v * sum
     /\ final.neutral * total = reported.neutral.v * sum
     /\ final.negative * total = reported.negative.v * sum

\* C17: every sentiment triple the analyst reported, the overall one and each
\* participant's, is in the analysis data of analyze_transcript brought to a
\* sum of 1 with its ratios unchanged, whatever non-negative numbers it holds.
C17_TriplesNormalised ==
  (applied.fn = "analyze_transcript" /\ ReportedBlock(applied.result).ok) =>
    LET block == ReportedBlock(applied.result).val.v
        data == applied.out.analysis_data
    IN /\ applied.out.path = "parsed"
       /\ Normalised(data.sentiment_breakdown, block.sentiment_breakdown.v)
       /\ \A pid \in DOMAIN block.participant_sentiment.v :
             /\ pid \in DOMAIN data.participant_sentiment
             /\ Normalised(data.participant_sentiment[pid],
                           block.participant_sentiment.v[pid].v)

\* the turns of a dialogue in which every call is answered:
\* focus_group_simulation.py 500-650, one moderator turn and one turn per
\* participant in each round, then the conclusion; idi_simulation.py 398-476,
\* the introduction and its reply, a question and an answer while
\* question_count < num_questions, the closing and the final words
FullLength ==
  IF IsFocusGroup
  THEN num_rounds * (1 + Len(participants)) + 1
  ELSE 2 + 2 * (IF num_questions > 1 THEN num_questions - 1 ELSE 0) + 2

\* C20: a generation call that raises inside run_simulation or run_interview
\* becomes a fallback turn: the exception never leaves the loop, and the
\* transcript the loop returns has its full length.
C20_RaisedCallAbsorbed ==
  /\ dlg_pc # "raised"
  /\ dlg_pc = "returned" => Len(transcript) = FullLength

(***************************************************************************)
(* Properties of the two regimes of generation calls.                      *)
(***************************************************************************)
\* the Runner.run calls of collect_survey_responses that have not finished
OutstandingTasks ==
  {i \in 1..Len(results) : results[i] = Pending /\ calls[i] = 1}

\* the step in which gather() hands the results to the processing loop
ResultsProcessed ==
  /\ stage = "collect_survey_responses" /\ phase = "awaiting"
  /\ stage' # "collect_survey_responses"

\* C19: in run_simulation and run_interview at most one generation call is
\* outstanding at any time; in collect_survey_responses at most
\* len(respondents) calls are outstanding, one task per respondent has been
\* created before any result is processed, and no result is processed while
\* a task has not finished.
C19_SequentialAndFanOut ==
  /\ [](outstanding <= 1)
  /\ [](Cardinality(OutstandingTasks) <= Len(respondents))
  /\ [][ResultsProcessed =>
          /\ Len(tasks) = Len(respondents)
          /\ \A i \in 1..Len(tasks) :
               /\ calls[i] = (IF tasks[i].init_failed THEN 0 ELSE 1)
               /\ results[i] # Pending]_vars

\* every respondent's call is outstanding at once, none has come back
C19_Witness ==
  /\ Len(respondents) = MaxRespondents
  /\ Cardinality(OutstandingTasks) = Len(respondents)
  /\ stage = "collect_survey_responses" /\ phase = "awaiting"

(***************************************************************************)
(* Properties of the survey run after the analysis.                        *)
(***************************************************************************)
\* survey_simulation.py 968-984: the analyst's text held a fenced block that
\* did not parse or lacked a required key
AnalystBlockRejected ==
  /\ analysis_results # Unset
  /\ analysis_results.visualization_data = Null

\* C21: a survey run whose analyst output holds a fenced block that does not
\* parse or lacks required keys still executes every remaining stage and ends
\* completed; it never reaches the except clause.
C21_MalformedAnalysisCompletes ==
  AnalystBlockRejected => stage \notin {"except", "failed"}

VisualizationStarted ==
  \E i \in 1..Len(started) : started[i] = "generate_visualizations"

\* C23: from the call of generate_visualizations on, whatever fails, no step
\* of the run changes the files the earlier stages saved (the survey, the
\* respondents, the raw responses, the processed data, the analysis).
C23_EarlierArtifactsKept ==
  [][(stage = "generate_visualizations" \/ VisualizationStarted) =>
        \A s \in DataStages : files'[ArtifactOf(s)] = files[ArtifactOf(s)]]_vars

\* generate_visualizations has raised, the handler has run, and the five
\* files are there
C23_Witness ==
  /\ stage = "failed"
  /\ started[Len(started)] = "generate_visualizations"
  /\ error = "AttributeError"
  /\ \A s \in DataStages : files[ArtifactOf(s)] # Absent

\* the surveys design_survey can return
DesignedSurveys == {GoodSurvey, FallbackSurvey(Topic)}

\* C24: each stage of run_survey_simulation is given only the artifact of
\* the stage just before it and the run parameters.  For process_survey_data
\* that artifact is the responses: what the stage computes is the same
\* whichever survey design_survey, three stages earlier, returned.
C24_OnlyPrecedingArtifact ==
  (stage = "process_survey_data" /\ phase = "ready") =>
     \A other \in DesignedSurveys :
        process_survey_data(other, responses)
          = process_survey_data(survey_questions, responses)

(***************************************************************************)
(* Properties of analyze_transcript and from_json_str.                     *)
(***************************************************************************)
\* the participant ids of the run whose transcript was analysed
RunParticipants(entries) ==
  {"Participant_" \o ToString(i) : i \in 1..(Cardinality(Speakers(entries)) - 1)}

\* C25: the analysis data analyze_transcript returns, from the analyst's
\* block or from the except clause, holds a sentiment triple for every
\* participant of the run, with no negative component and a sum of 1.
C25_ParticipantTriplesComplete ==
  applied.fn = "analyze_transcript" =>
    LET sentiment == applied.out.analysis_data.participant_sentiment
    IN \A pid \in RunParticipants(applied.entries) :
          /\ pid \in DOMAIN sentiment
          /\ sentiment[pid].positive >= 0
          /\ sentiment[pid].neutral >= 0
          /\ sentiment[pid].negative >= 0
          /\ sentiment[pid].positive + sentiment[pid].neutral
               + sentiment[pid].negative = 100

\* C26: from_json_str returns an AnalysisData object for every string and
\* never raises: the object built from the block when the text holds a valid
\* one, fenced or as the whole text, and the default object otherwise.
C26_FromJsonStrTotal ==
  applied.fn = "from_json_str" =>
    /\ applied.out.ok
    /\ LET loaded == JsonLoads(applied.json_str.body)
       IN IF loaded.ok /\ AnalysisData(loaded.val).ok
          THEN applied.out.val = AnalysisData(loaded.val).val
          ELSE applied.out.val = AnalysisDefaults

\* survey_simulation.py 468-507: the profiles of a backend result that pass
\* the validation
ValidatedProfiles(result) ==
  LET ex == RespondentsExtract(result.final_output)
  IN IF ex.ok /\ IsList(ex.val) THEN SelectSeq(ex.val.v, ProfileValid) ELSE <<>>

\* the profile is a copy of source with a clone's id and an age the cloning
\* step can give it: within 3 of a numeric age and at least 18, or between
\* 18 and 75
IsCloneOf(profile, source) ==
  \E new_id_num \in 1..(2 * MaxRequested + 2), delta \in -3..3, random_age \in 18..75 :
     profile = MakeClone(source, new_id_num, delta, random_age)

\* C27: every profile generate_respondents adds to reach the requested
\* count is a copy of one of the profiles that passed validation, never of
\* an earlier clone.
C27_ClonesFromValidated ==
  (applied.fn = "generate_respondents" /\ ~applied.out.raised
     /\ applied.out.path = "parsed") =>
    LET validated == ValidatedProfiles(applied.result)
    IN \A i \in (Len(validated) + 1)..Len(applied.out.value) :
          \E k \in 1..Len(validated) : IsCloneOf(applied.out.value[i], validated[k])

(***************************************************************************)
(* Properties of process_survey_data in a survey run up to its return.     *)
(***************************************************************************)
\* the answers of the r-th response set given to process_survey_data
AnswersOf(r) ==
  LET resp_answers == Get(responses[r], "responses", Lst(<<>>))
  IN IF IsList(resp_answers) THEN resp_answers.v ELSE <<>>

RespondentIdOf(r) == Get(responses[r], "respondent_id", Str("Unknown"))

IsMarkerAnswer(answer) ==
  IsDict(answer) /\ Get(answer, "question_id", Null) \in MarkerIds

\* the marker answers of the response sets that carry respondent id `id`
MarkerAnswers(id) ==
  UNION { { <<r, a>> : a \in {a \in 1..Len(AnswersOf(r)) :
                                 IsMarkerAnswer(AnswersOf(r)[a])} } :
          r \in {r \in 1..Len(responses) : RespondentIdOf(r) = id} }

\* C28: in the processed data every aggregated response of a question comes
\* from an answer that names that question, a question of the survey, and
\* is no marker answer; every marker answer counts as one error of its
\* respondent; num_respondents_processed is the number of response sets.
C28_AggregationSound ==
  processed_data # Unset =>
    LET aggregated == processed_data.questions_aggregated
        counts == processed_data.survey_metadata.respondent_error_counts
        survey_ids == {SurveyQuestions(survey_questions)[k].v.question_id :
                         k \in 1..Len(SurveyQuestions(survey_questions))}
    IN /\ \A k \in 1..Len(aggregated) :
            /\ aggregated[k].q_id \in survey_ids
            /\ \A m \in 1..Len(aggregated[k].responses) :
                  LET entry == aggregated[k].responses[m]
                  IN \E r \in 1..Len(responses) :
                       /\ RespondentIdOf(r) = entry.respondent_id
                       /\ \E a \in 1..Len(AnswersOf(r)) :
                            LET answer == AnswersOf(r)[a]
                            IN /\ IsDict(answer)
                               /\ ~IsMarkerAnswer(answer)
                               /\ Get(answer, "question_id", Null) = aggregated[k].q_id
                               /\ entry.response \in
                                    {Get(answer, "response", Null),
                                     PyStr(Get(answer, "response", Null))}
       /\ \A r \in 1..Len(responses) :
            MarkerAnswers(RespondentIdOf(r)) # {} =>
              /\ RespondentIdOf(r) \in DOMAIN counts
              /\ counts[RespondentIdOf(r)]
                   >= Cardinality(MarkerAnswers(RespondentIdOf(r)))
       /\ processed_data.survey_metadata.num_respondents_processed = Len(responses)

\* processed data with an aggregated response and a counted marker answer
C28_Witness ==
  /\ processed_data # Unset
  /\ \E k \in 1..Len(processed_data.questions_aggregated) :
        processed_data.questions_aggregated[k].responses # <<>>
  /\ \E r \in 1..Len(responses) : MarkerAnswers(RespondentIdOf(r)) # {}

(***************************************************************************)
(* Properties of the transcripts the dialogues return.                     *)
(***************************************************************************)
\* C29: the transcript run_simulation returns for R rounds and P
\* participants has R*(1+P)+1 entries whichever calls failed: each round is
\* the moderator's entry followed by one entry per participant in list
\* order, and the last entry is the moderator's conclusion.
C29_RoundStructure ==
  (IsFocusGroup /\ dlg_pc = "returned") =>
    LET P == Len(participants)
        first(r) == (r - 1) * (1 + P) + 1
    IN /\ Len(transcript) = num_rounds * (1 + P) + 1
       /\ \A r \in 1..num_rounds :
            /\ transcript[first(r)].speaker_id = "Moderator"
            /\ \A j \in 1..P :
                 transcript[first(r) + j].speaker_id = participants[j].persona_id
       /\ transcript[Len(transcript)].speaker_id = "Moderator"

\* a returned focus group of the most rounds with two participants or more
\* in which a call failed
C29_Witness ==
  /\ IsFocusGroup /\ dlg_pc = "returned"
  /\ num_rounds = MaxRounds
  /\ Len(participants) >= 2
  /\ fallbacks # {}

\* max(num_questions, 1)
AtLeastOne(n) == IF n > 1 THEN n ELSE 1

\* C30: run_interview ends for every num_questions, and when no call raised
\* it returns 2*max(num_questions, 1)+2 entries that alternate interviewer
\* and respondent, the interviewer first and the respondent last.
C30_InterviewTerminatesAlternating ==
  /\ <>(dlg_pc \in {"returned", "raised"})
  /\ [](dlg_pc = "returned" =>
          /\ Len(transcript) = 2 * AtLeastOne(num_questions) + 2
          /\ \A i \in 1..Len(transcript) :
               transcript[i][1] = (IF i % 2 = 1 THEN interviewer_name
                                   ELSE respondent_name))

\* an interview of the most questions has returned
C30_Witness ==
  /\ dlg_pc = "returned"
  /\ num_questions = MaxQuestions
  /\ Len(transcript) = 2 * MaxQuestions + 2
  /\ transcript[Len(transcript)][1] = respondent_name

====
